---- MODULE Spec2Model ----
(***************************************************************************)
(* Model of the backtesting engine of PolymarketAnalyst                    *)
(* (src/src/analysis/backtester.py, class Backtester).                     *)
(*                                                                         *)
(* Numbers.  Prices, costs, PnL and capital are held in hundredths of a    *)
(* dollar (a price of 0.52 is 52, a capital of 100 is 10000), quantities   *)
(* are whole shares and timestamps are whole seconds.  One is the value    *)
(* 1.0 (the payout of one winning share).  The program holds the amounts   *)
(* as floats: where it compares two of them or floors one, and the amounts *)
(* in hundredths do not decide the outcome, the model computes the binary64*)
(* numbers themselves (section "binary64 numbers").                        *)
(***************************************************************************)
EXTENDS Integers, Sequences, FiniteSets, TLC

\* ---------------------------------------------------------------- bounds
MaxRows == 2
MaxTime == 3

\* 1.0 in hundredths: the "1" of quantity * (1 - entry_price)
One == 100

Sides == {"Up", "Down"}

\* MarketID = (TargetTime, Expiration)
Markets == {<<2, 2>>, <<3, 3>>}

\* ask prices a quote may carry, as (UpAsk, DownAsk): any pair of Prices in
\* a file of one quote, one of AskPairs in a longer file
Prices == {0, 48, 55}
AskPairs == {<<0, 55>>, <<55, 0>>, <<48, 55>>, <<55, 48>>}

InitialCapitals == {500, 10000}
SlippageChoices == {-1, 0, 1}

\* (side, quantity, price) a strategy may decide on
Trades == {<<"Up", 10, 50>>, <<"Down", 10, 52>>}

\* ------------------------------------------------------------ input rows
Row(t, m, a) ==
    [Timestamp |-> t, TargetTime |-> m[1], Expiration |-> m[2],
     UpAsk |-> a[1], DownAsk |-> a[2]]

FileAsks(n) == IF n = 1 THEN Prices \X Prices ELSE AskPairs

Rows(n) == {Row(t, m, a) : t \in 1..MaxTime, m \in Markets, a \in FileAsks(n)}

\* the files load_data may read: 1..MaxRows rows, in any order
Files == UNION {[1..n -> Rows(n)] : n \in 1..MaxRows}

MarketOf(row) == <<row.TargetTime, row.Expiration>>

\* what strategy.decide may return: None, or a tuple
NoneDecision == [none |-> TRUE, items |-> <<>>]
TupleDecision(items) == [none |-> FALSE, items |-> items]

Decisions ==
    {NoneDecision}
    \cup {TupleDecision(<<t[1], t[2], t[3], "info">>) : t \in Trades}
    \cup {TupleDecision(<<"Up", 10, 50>>)}

\* State.  The fields of Backtester set in __init__ (lines 19-32) under their
\* own names; the position of run_strategy: pc (constructed, loaded, resolve,
\* quotes, final, done, raised), grp and rowi (the timestamp group and the row
\* in it, lines 263 and 295), current_timestamp and trade_decision (its
\* locals); and what the strategy object was called with: decide_calls
\* (line 297) and portfolio_calls (line 309).
VARIABLES
    initial_capital, slippage_seconds, capital,
    transactions, open_positions, market_data, market_history,
    pending_market_summaries, transactions_by_market,
    portfolio_history, risk_events,
    pc, grp, rowi, current_timestamp, trade_decision,
    decide_calls, portfolio_calls,
    market_states, delta_case, delta_passes,
    hybrid_portfolio, hybrid_call,
    optimized_portfolio,
    input_file, report

\* the state of the strategy objects: market_states of an
\* AvgArbitrageStrategy; the arguments of one pair of calls of
\* check_delta_constraint and what the two calls returned
\* the portfolio_state of a HybridStrategy and one direct call of its
\* decide: the arguments and what it returned
hybrid_vars == <<hybrid_portfolio, hybrid_call>>

\* the portfolio_state of an OptimizedHybridStrategy
optimized_vars == <<optimized_portfolio>>

strategy_vars == <<market_states, delta_case, delta_passes, hybrid_vars,
                   optimized_vars>>

\* what a run was given from outside and what it printed: input_file, the
\* rows of the CSV file in the order of the file (recorded by LoadFile only);
\* report, the figures of generate_report (recorded by GenerateReport only)
scenario_vars == <<input_file, report>>

vars == <<initial_capital, slippage_seconds, capital,
          transactions, open_positions, market_data, market_history,
          pending_market_summaries, transactions_by_market,
          portfolio_history, risk_events,
          pc, grp, rowi, current_timestamp, trade_decision,
          decide_calls, portfolio_calls, strategy_vars, scenario_vars>>

\* --------------------------------------------------------------- helpers
Last(s) == s[Len(s)]

\* (variant: the new entry replaces the list of the key)
AppendAt_Overwrites(d, k, v) ==
    [x \in DOMAIN d \cup {k} |-> IF x = k THEN <<v>> ELSE d[x]]

\* dict.setdefault(k, []).append(v)
AppendAt(d, k, v) ==
    IF k \in DOMAIN d
    THEN [d EXCEPT ![k] = Append(@, v)]
    ELSE [x \in DOMAIN d \cup {k} |-> IF x = k THEN <<v>> ELSE d[x]]

EmptyDict == [x \in {} |-> <<>>]

\* no call of check_delta_constraint has been set up
NoDeltaCase == [none |-> TRUE]

\* decide of the HybridStrategy has not been called
NoHybridCall == [none |-> TRUE]

\* generate_report has not run
NoReport == [none |-> TRUE]

\* DataFrame.sort_values(by='Timestamp'): rows in ascending Timestamp.
\* SortByTimestamp is the outcome that keeps rows of equal Timestamp in their
\* order in the file; SortOutcomes below is every outcome of the call.
RECURSIVE InsertSorted(_, _)
InsertSorted(sorted, row) ==
    IF sorted = <<>> THEN <<row>>
    ELSE IF Last(sorted).Timestamp <= row.Timestamp THEN Append(sorted, row)
    ELSE Append(InsertSorted(SubSeq(sorted, 1, Len(sorted) - 1), row), Last(sorted))

\* (variant: the rows stay in the order of the file)
SortByTimestamp_AsRead(rows) == rows

RECURSIVE SortByTimestamp(_)
SortByTimestamp(rows) ==
    IF rows = <<>> THEN <<>>
    ELSE InsertSorted(SortByTimestamp(SubSeq(rows, 1, Len(rows) - 1)), Last(rows))

\* sort_values is called without kind=, so the sort is the default
\* 'quicksort', which is not a stable sort: rows of equal Timestamp come out
\* in an order the call does not fix (numpy partitions by swapping, and
\* falls back to an insertion sort only on short runs). Every reordering of
\* the equal-Timestamp rows of the stable outcome is an outcome.
SortOutcomes(rows) ==
    LET stable == SortByTimestamp(rows)
        n == Len(stable)
    IN {[i \in 1..n |-> stable[p[i]]] :
            p \in {q \in Permutations(1..n) :
                      \A i \in 1..n :
                          stable[q[i]].Timestamp = stable[i].Timestamp}}

\* the date read_csv gives a field without text: NaT (the dates of the
\* files are 1 and up)
NaT == 0

\* groupby leaves out the rows with NaT in a key column (dropna=True)
HasMarket(row) == row.TargetTime # NaT /\ row.Expiration # NaT

\* DataFrame.groupby(['TargetTime', 'Expiration']) as a dict of groups
GroupByMarket(data) ==
    [m \in {MarketOf(data[i]) : i \in {j \in 1..Len(data) : HasMarket(data[j])}}
        |-> SelectSeq(data, LAMBDA r : MarketOf(r) = m)]

\* DataFrame.groupby('Timestamp', sort=False): the distinct timestamps in
\* order of first appearance
RECURSIVE GroupKeysFrom(_, _, _)
GroupKeysFrom(data, i, keys) ==
    IF i > Len(data) THEN keys
    ELSE GroupKeysFrom(data, i + 1,
                       IF \E k \in 1..Len(keys) : keys[k] = data[i].Timestamp
                       THEN keys
                       ELSE Append(keys, data[i].Timestamp))

GroupKeys(data) == GroupKeysFrom(data, 1, <<>>)

GroupRows(data, t) == SelectSeq(data, LAMBDA r : r.Timestamp = t)


\* ------------------------------------------------------ resolution engine
\* (variant: equal asks go to Down)
WinningSide_TiesDown(up_ask, down_ask) ==
    IF up_ask = 0 THEN "Up"
    ELSE IF down_ask = 0 THEN "Down"
    ELSE IF down_ask >= up_ask THEN "Down"
    ELSE "Up"

\* (variant: the asks are compared without the tests for 0)
WinningSide_NoZeroTest(up_ask, down_ask) ==
    IF down_ask > up_ask THEN "Down" ELSE "Up"

\* _resolve_single_position, lines 98-109: the winner from the two asks of
\* the market's last quote
WinningSide(up_ask, down_ask) ==
    IF up_ask = 0 THEN "Up"
    ELSE IF down_ask = 0 THEN "Down"
    ELSE IF down_ask > up_ask THEN "Down"
    ELSE "Up"

\* (variant: a losing position is booked with no loss)
PositionPnL_NoLoss(position, winning_side) ==
    IF position.side = winning_side
    THEN position.quantity * (One - position.entry_price)
    ELSE 0

\* lines 111-116: the PnL of a position
PositionPnL(position, winning_side) ==
    IF position.side = winning_side
    THEN position.quantity * (One - position.entry_price)
    ELSE -(position.quantity * position.entry_price)

\* (variant: the PnL, not the payout, is credited)
Payout_CreditsPnL(position, winning_side) ==
    IF position.side = winning_side
    THEN position.quantity * (One - position.entry_price) ELSE 0

\* line 114: what a resolution adds to capital
Payout(position, winning_side) ==
    IF position.side = winning_side THEN position.quantity * One ELSE 0

\* (variant: the first quote of the market decides)
LastQuote_First(market_specific_data) == market_specific_data[1]

\* line 96: market_specific_data.iloc[-1]
LastQuote(market_specific_data) == Last(market_specific_data)

\* prediction_backtester.determine_winner(market_df)
DetermineWinner(market_df) ==
    IF market_df = <<>> THEN "None"
    ELSE LET last == Last(market_df) IN
         IF last.UpAsk = 0 THEN "Up"
         ELSE IF last.DownAsk = 0 THEN "Down"
         ELSE IF last.DownAsk > last.UpAsk THEN "Down"
         ELSE "Up"

\* (variant: the market is settled on its last quote up to the timestamp of
\* the resolution)
ResolveSinglePosition_AsOfResolution(st, hist, position, ts) ==
    LET m == position.market_id IN
    IF m \notin DOMAIN hist
    THEN [st EXCEPT !.pending =
             AppendAt(@, m, [pnl |-> 0, winning_side |-> "Error"])]
    ELSE
      LET last_dp == LastQuote(SelectSeq(hist[m],
                                         LAMBDA r : r.Timestamp <= ts))
          winning_side == WinningSide(last_dp.UpAsk, last_dp.DownAsk)
          pnl == PositionPnL(position, winning_side)
          resolution_log_entry ==
              [Timestamp |-> ts, Type |-> "Resolution", MarketID |-> m,
               Side |-> position.side, Quantity |-> position.quantity,
               EntryPrice |-> position.entry_price,
               Value |-> position.quantity * position.entry_price,
               PnL |-> pnl, WinningSide |-> winning_side]
          info ==
              [market_id |-> m, side |-> position.side,
               quantity |-> position.quantity,
               entry_price |-> position.entry_price,
               pnl |-> pnl, winning_side |-> winning_side]
      IN [capital |-> st.capital + Payout(position, winning_side),
          transactions |-> Append(st.transactions, resolution_log_entry),
          transactions_by_market |->
              AppendAt(st.transactions_by_market, m, resolution_log_entry),
          pending |-> AppendAt(st.pending, m, info)]

\* _resolve_single_position on the running state st =
\* [capital, transactions, transactions_by_market, pending]; the caller's
\* append of the returned info to pending_market_summaries is included
ResolveSinglePosition(st, hist, position, ts) ==
    LET m == position.market_id IN
    IF m \notin DOMAIN hist
    THEN [st EXCEPT !.pending =
             AppendAt(@, m, [pnl |-> 0, winning_side |-> "Error"])]
    ELSE
      LET last_dp == LastQuote(hist[m])
          winning_side == WinningSide(last_dp.UpAsk, last_dp.DownAsk)
          pnl == PositionPnL(position, winning_side)
          resolution_log_entry ==
              [Timestamp |-> ts, Type |-> "Resolution", MarketID |-> m,
               Side |-> position.side, Quantity |-> position.quantity,
               EntryPrice |-> position.entry_price,
               Value |-> position.quantity * position.entry_price,
               PnL |-> pnl, WinningSide |-> winning_side]
          info ==
              [market_id |-> m, side |-> position.side,
               quantity |-> position.quantity,
               entry_price |-> position.entry_price,
               pnl |-> pnl, winning_side |-> winning_side]
      IN [capital |-> st.capital + Payout(position, winning_side),
          transactions |-> Append(st.transactions, resolution_log_entry),
          transactions_by_market |->
              AppendAt(st.transactions_by_market, m, resolution_log_entry),
          pending |-> AppendAt(st.pending, m, info)]

\* (variant: a position is due only after its expiration)
PositionExpired_After(ts, position) == ts > position.expiration

\* run_strategy line 277: is the position due at this timestamp
PositionExpired(ts, position) == ts >= position.expiration

\* run_strategy lines 276-286: resolve, in list order, the positions that are
\* due among positions[k..]
RECURSIVE ResolveDue(_, _, _, _, _)
ResolveDue(st, hist, positions, k, ts) ==
    IF k > Len(positions) THEN st
    ELSE IF PositionExpired(ts, positions[k])
         THEN ResolveDue(ResolveSinglePosition(st, hist, positions[k], ts),
                         hist, positions, k + 1, ts)
         ELSE ResolveDue(st, hist, positions, k + 1, ts)

\* (variant: resolved positions stay in the list)
RemoveResolved_KeepsAll(positions, ts) == positions

\* line 290: del self.open_positions[index] (the indices deleted are those
\* of the list itself)
DeleteAt(positions, index) ==
    IF index \in 1..Len(positions)
    THEN SubSeq(positions, 1, index - 1)
             \o SubSeq(positions, index + 1, Len(positions))
    ELSE positions

\* (variant: the indices are deleted from the front of the list)
RECURSIVE DeleteIndices_Ascending(_, _)
DeleteIndices_Ascending(positions, indices) ==
    IF indices = {} THEN positions
    ELSE LET index == CHOOSE k \in indices : \A other \in indices : k <= other
         IN DeleteIndices_Ascending(DeleteAt(positions, index),
                                    indices \ {index})

\* lines 289-290: for index in sorted(indices, reverse=True): del ...
RECURSIVE DeleteIndices(_, _)
DeleteIndices(positions, indices) ==
    IF indices = {} THEN positions
    ELSE LET index == CHOOSE k \in indices : \A other \in indices : other <= k
         IN DeleteIndices(DeleteAt(positions, index), indices \ {index})

\* run_strategy lines 273-290: the list after the positions due at ts,
\* collected by index in positions_to_remove_indices, have been deleted
RemoveResolved(positions, ts) ==
    DeleteIndices(positions,
                  {k \in 1..Len(positions) : PositionExpired(ts, positions[k])})

\* (variant: only the first position of the list is resolved)
ResolveAll_OnlyFirst(st, hist, positions, k, ts) ==
    IF k > 1 \/ positions = <<>> THEN st
    ELSE ResolveSinglePosition(st, hist, positions[1], ts)

\* run_strategy lines 331-337: resolve every position of the list
RECURSIVE ResolveAll(_, _, _, _, _)
ResolveAll(st, hist, positions, k, ts) ==
    IF k > Len(positions) THEN st
    ELSE ResolveAll(ResolveSinglePosition(st, hist, positions[k], ts),
                    hist, positions, k + 1, ts)

\* _print_market_summary formats the two dates of the market (line 134;
\* NaT has no strftime) and reads res['side'] of every resolution info
\* (line 139)
SummaryReadable(pending) ==
    \A m \in DOMAIN pending :
        /\ m[1] # NaT /\ m[2] # NaT
        /\ \A i \in 1..Len(pending[m]) : "side" \in DOMAIN pending[m][i]

\* --------------------------------------------------------- slippage model
\* (variant: only a delay of exactly 0 turns slippage off)
SlippageOff_OnlyZero(seconds) == seconds = 0

\* lines 214-215: no slippage is configured
SlippageOff(seconds) == seconds <= 0

SidePrice(row, side) == IF side = "Up" THEN row.UpAsk ELSE row.DownAsk

\* (variant: only a quote strictly after the delayed timestamp counts)
ApplySlippage_StrictlyAfter(seconds, hist, ts, m, side, entry_price) ==
    IF SlippageOff(seconds) THEN entry_price
    ELSE IF m \notin DOMAIN hist THEN entry_price
    ELSE
      LET future_data ==
              SelectSeq(hist[m], LAMBDA r : r.Timestamp > ts + seconds)
      IN IF future_data # <<>> /\ SidePrice(future_data[1], side) > 0
         THEN SidePrice(future_data[1], side)
         ELSE entry_price

\* (variant: an ask of 0 in the delayed quote is taken as the price)
ApplySlippage_TakesZeroAsk(seconds, hist, ts, m, side, entry_price) ==
    IF SlippageOff(seconds) THEN entry_price
    ELSE IF m \notin DOMAIN hist THEN entry_price
    ELSE
      LET future_data ==
              SelectSeq(hist[m], LAMBDA r : r.Timestamp >= ts + seconds)
      IN IF future_data # <<>>
         THEN SidePrice(future_data[1], side)
         ELSE entry_price

\* (variant: the last of the quotes at or after the delayed timestamp is taken)
ApplySlippage_TakesLastQuote(seconds, hist, ts, m, side, entry_price) ==
    IF SlippageOff(seconds) THEN entry_price
    ELSE IF m \notin DOMAIN hist THEN entry_price
    ELSE
      LET future_data ==
              SelectSeq(hist[m], LAMBDA r : r.Timestamp >= ts + seconds)
      IN IF future_data # <<>> /\ SidePrice(Last(future_data), side) > 0
         THEN SidePrice(Last(future_data), side)
         ELSE entry_price

\* _apply_slippage, lines 203-231: the ask of the side in the first quote of
\* the market at or after ts + seconds, when there is one and it is > 0
ApplySlippage(seconds, hist, ts, m, side, entry_price) ==
    IF SlippageOff(seconds) THEN entry_price
    ELSE IF m \notin DOMAIN hist THEN entry_price
    ELSE
      LET slippage_timestamp == ts + seconds
          future_data ==
              SelectSeq(hist[m], LAMBDA r : r.Timestamp >= slippage_timestamp)
      IN IF future_data # <<>> /\ SidePrice(future_data[1], side) > 0
         THEN SidePrice(future_data[1], side)
         ELSE entry_price

\* ------------------------------------------------------ binary64 numbers
\* Python's float is the IEEE 754 binary64 number, and every operation on
\* it gives the representable number nearest to the exact result, a tie
\* going to the even significand.  A Nat of any size is held as the sequence
\* of its digits in base LimbBase, the least digit first and the last digit
\* not 0 (so 0 is <<>>).
LimbBase == 32768
LimbBits == 15

\* the significand of a binary64 number has SignificandBits bits
SignificandBits == 53

RECURSIVE Pow2(_)
Pow2(k) == IF k = 0 THEN 1 ELSE 2 * Pow2(k - 1)

RECURSIVE NatOfInt(_)
NatOfInt(n) ==
    IF n = 0 THEN <<>> ELSE <<n % LimbBase>> \o NatOfInt(n \div LimbBase)

RECURSIVE IntOfNat(_)
IntOfNat(a) ==
    IF a = <<>> THEN 0 ELSE a[1] + LimbBase * IntOfNat(Tail(a))

RECURSIVE NatTrim(_)
NatTrim(a) ==
    IF a = <<>> THEN <<>>
    ELSE IF a[Len(a)] = 0 THEN NatTrim(SubSeq(a, 1, Len(a) - 1))
    ELSE a

Limb(a, i) == IF i <= Len(a) THEN a[i] ELSE 0

RECURSIVE NatAddFrom(_, _, _, _)
NatAddFrom(a, b, i, carry) ==
    IF i > Len(a) /\ i > Len(b)
    THEN IF carry = 0 THEN <<>> ELSE <<carry>>
    ELSE LET x == Limb(a, i) + Limb(b, i) + carry
         IN <<x % LimbBase>> \o NatAddFrom(a, b, i + 1, x \div LimbBase)

NatAdd(a, b) == NatAddFrom(a, b, 1, 0)

\* a - b for a >= b
RECURSIVE NatSubFrom(_, _, _, _)
NatSubFrom(a, b, i, borrow) ==
    IF i > Len(a) THEN <<>>
    ELSE LET x == Limb(a, i) - Limb(b, i) - borrow
         IN IF x < 0
            THEN <<x + LimbBase>> \o NatSubFrom(a, b, i + 1, 1)
            ELSE <<x>> \o NatSubFrom(a, b, i + 1, 0)

NatSub(a, b) == NatTrim(NatSubFrom(a, b, 1, 0))

\* -1, 0 or 1 as a < b, a = b or a > b, deciding from digit i down
RECURSIVE NatCmpFrom(_, _, _)
NatCmpFrom(a, b, i) ==
    IF i = 0 THEN 0
    ELSE IF a[i] < b[i] THEN -1
    ELSE IF a[i] > b[i] THEN 1
    ELSE NatCmpFrom(a, b, i - 1)

NatCmp(a, b) ==
    IF Len(a) < Len(b) THEN -1
    ELSE IF Len(a) > Len(b) THEN 1
    ELSE NatCmpFrom(a, b, Len(a))

\* a * d for one digit d
RECURSIVE NatMulLimbFrom(_, _, _, _)
NatMulLimbFrom(a, d, i, carry) ==
    IF i > Len(a)
    THEN IF carry = 0 THEN <<>> ELSE <<carry>>
    ELSE LET x == a[i] * d + carry
         IN <<x % LimbBase>> \o NatMulLimbFrom(a, d, i + 1, x \div LimbBase)

NatMulLimb(a, d) == IF d = 0 THEN <<>> ELSE NatMulLimbFrom(a, d, 1, 0)

RECURSIVE NatMulFrom(_, _, _)
NatMulFrom(a, b, j) ==
    IF j > Len(b) THEN <<>>
    ELSE NatAdd(NatMulLimb(a, b[j]),
                NatTrim(<<0>> \o NatMulFrom(a, b, j + 1)))

NatMul(a, b) == IF a = <<>> THEN <<>> ELSE NatMulFrom(a, b, 1)

RECURSIVE IntBitLen(_)
IntBitLen(n) == IF n = 0 THEN 0 ELSE 1 + IntBitLen(n \div 2)

NatBitLen(a) ==
    IF a = <<>> THEN 0
    ELSE LimbBits * (Len(a) - 1) + IntBitLen(a[Len(a)])

NatZeros(n) == [i \in 1..n |-> 0]

\* a * 2^k
NatShiftLeft(a, k) ==
    IF a = <<>> THEN <<>>
    ELSE NatZeros(k \div LimbBits) \o NatMulLimb(a, Pow2(k % LimbBits))

\* a \div 2^k
NatShiftRight(a, k) ==
    LET whole == k \div LimbBits
        r == k % LimbBits
        n == Len(a) - whole
    IN IF n <= 0 THEN <<>>
       ELSE NatTrim([i \in 1..n |->
                (a[whole + i] \div Pow2(r))
                + (Limb(a, whole + i + 1) % Pow2(r)) * Pow2(LimbBits - r)])

NatOdd(a) == a # <<>> /\ a[1] % 2 = 1

\* long division bit by bit: s = [q, r] is the quotient so far and the
\* remainder, below the divisor d; after the steps, the quotient and
\* whether a remainder is left
RECURSIVE NatDivBits(_, _, _)
NatDivBits(s, d, steps) ==
    IF steps = 0 THEN [q |-> s.q, rest |-> s.r # <<>>]
    ELSE LET r2 == NatAdd(s.r, s.r)
             q2 == NatAdd(s.q, s.q)
         IN IF NatCmp(r2, d) >= 0
            THEN NatDivBits([q |-> NatAdd(q2, <<1>>), r |-> NatSub(r2, d)],
                            d, steps - 1)
            ELSE NatDivBits([q |-> q2, r |-> r2], d, steps - 1)

\* The number (-1)^neg * m * 2^e.  A binary64 number is 0 (m = <<>>, e = 0)
\* or has a significand m of exactly SignificandBits bits.
Zero64 == [neg |-> FALSE, m |-> <<>>, e |-> 0]

\* the binary64 number nearest to (-1)^neg * n * 2^e, for a Nat n of any
\* size: round half to even.  drop is the number of low bits of n that do
\* not fit, kept the bits that do, and c compares the bits dropped with half
\* of the last place kept
Round64(neg, n, e) ==
    LET Carried(m, exp) ==
            IF NatBitLen(m) > SignificandBits
            THEN [neg |-> neg, m |-> NatShiftRight(m, 1), e |-> exp + 1]
            ELSE [neg |-> neg, m |-> m, e |-> exp]
        Nearest(kept, c, exp) ==
            Carried(IF c > 0 \/ (c = 0 /\ NatOdd(kept))
                    THEN NatAdd(kept, <<1>>) ELSE kept, exp)
        Dropping(drop, kept) ==
            Nearest(kept,
                    NatCmp(NatSub(n, NatShiftLeft(kept, drop)),
                           NatShiftLeft(<<1>>, drop - 1)),
                    e + drop)
        Fitted(drop) ==
            IF drop <= 0
            THEN [neg |-> neg, m |-> NatShiftLeft(n, -drop), e |-> e + drop]
            ELSE Dropping(drop, NatShiftRight(n, drop))
    IN IF n = <<>> THEN Zero64
       ELSE Fitted(NatBitLen(n) - SignificandBits)

\* float(n) of an int n (below 2^31, so exact)
Float(n) == Round64(n < 0, NatOfInt(IF n < 0 THEN -n ELSE n), 0)

Neg64(x) == IF x.m = <<>> THEN x ELSE [x EXCEPT !.neg = ~@]

\* -1, 0, 1 as |x| < |y|, |x| = |y|, |x| > |y|
CmpAbs64(x, y) ==
    IF x.m = <<>> THEN (IF y.m = <<>> THEN 0 ELSE -1)
    ELSE IF y.m = <<>> THEN 1
    ELSE IF x.e < y.e THEN -1
    ELSE IF x.e > y.e THEN 1
    ELSE NatCmp(x.m, y.m)

\* -1, 0, 1 as x < y, x = y, x > y
Cmp64(x, y) ==
    IF x.neg # y.neg
    THEN (IF x.neg THEN -1 ELSE 1)
    ELSE (IF x.neg THEN -1 ELSE 1) * CmpAbs64(x, y)

\* x + y: a and b are the significands at the common exponent e
Add64(x, y) ==
    LET Ordered(a, b, e, x_larger) ==
            Round64(IF x_larger THEN x.neg ELSE y.neg,
                    IF x.neg = y.neg THEN NatAdd(a, b)
                    ELSE IF x_larger THEN NatSub(a, b)
                    ELSE NatSub(b, a),
                    e)
        Aligned(a, b, e) == Ordered(a, b, e, NatCmp(a, b) >= 0)
        At(e) ==
            Aligned(NatShiftLeft(x.m, x.e - e), NatShiftLeft(y.m, y.e - e), e)
    IN IF x.m = <<>> THEN y
       ELSE IF y.m = <<>> THEN x
       ELSE At(IF x.e < y.e THEN x.e ELSE y.e)

\* x - y
Sub64(x, y) == Add64(x, Neg64(y))

\* x * y
Mul64(x, y) ==
    IF x.m = <<>> \/ y.m = <<>> THEN Zero64
    ELSE Round64(x.neg # y.neg, NatMul(x.m, y.m), x.e + y.e)

\* x / y for y # 0: SignificandBits + 3 bits of the quotient are worked
\* out, and a bit more that says whether a remainder is left
Div64(x, y) ==
    LET Quotient(d) ==
            Round64(x.neg # y.neg,
                    NatAdd(NatAdd(d.q, d.q),
                           IF d.rest THEN <<1>> ELSE <<>>),
                    x.e - y.e - (SignificandBits + 4))
    IN IF x.m = <<>> THEN Zero64
       ELSE Quotient(NatDivBits(IF NatCmp(x.m, y.m) >= 0
                                THEN [q |-> <<1>>, r |-> NatSub(x.m, y.m)]
                                ELSE [q |-> <<>>, r |-> x.m],
                                y.m, SignificandBits + 3))

\* math.floor(x), for |x| below 2^31
Floor64(x) ==
    LET Below(whole) ==
            IF ~x.neg THEN IntOfNat(whole)
            ELSE IF NatShiftLeft(whole, -x.e) = x.m THEN -IntOfNat(whole)
            ELSE -IntOfNat(whole) - 1
    IN IF x.m = <<>> THEN 0
       ELSE IF x.e >= 0 THEN
            (IF x.neg THEN -1 ELSE 1) * IntOfNat(NatShiftLeft(x.m, x.e))
       ELSE Below(NatShiftRight(x.m, -x.e))

\* a \div d and a % d for one digit d > 0, from digit i of a down with the
\* remainder rem carried in: [q, rem]
RECURSIVE NatDivLimbFrom(_, _, _, _)
NatDivLimbFrom(a, d, i, rem) ==
    IF i = 0 THEN [q |-> <<>>, rem |-> rem]
    ELSE LET x == rem * LimbBase + a[i]
             low == NatDivLimbFrom(a, d, i - 1, x % d)
         IN [q |-> Append(low.q, x \div d), rem |-> low.rem]

NatDivLimb(a, d) ==
    LET r == NatDivLimbFrom(a, d, Len(a), 0)
    IN [q |-> NatTrim(r.q), rem |-> r.rem]

\* x / y for a whole y of one digit, 0 < y < LimbBase: as Div64, with the
\* division done digit by digit
DivInt64(x, y) ==
    LET Quotient(d) ==
            Round64(x.neg,
                    NatAdd(NatAdd(d.q, d.q),
                           IF d.rem # 0 THEN <<1>> ELSE <<>>),
                    x.e - (LimbBits + 4))
    IN IF x.m = <<>> THEN Zero64
       ELSE Quotient(NatDivLimb(NatShiftLeft(x.m, LimbBits + 3), y))

\* k / 4 for an int k (below 2^31, so exact)
Quarters64(k) == Round64(k < 0, NatOfInt(IF k < 0 THEN -k ELSE k), -2)

\* the float a decimal text or literal of n hundredths denotes: the
\* binary64 number nearest to n / 100 (n and 100 are exact, and the quotient
\* of two exact numbers is rounded once).  A whole number of quarters is a
\* binary64 number itself
Decimal64(n) ==
    IF n % 25 = 0 THEN Quarters64(n \div 25) ELSE DivInt64(Float(n), 100)

\* -------------------------------------------------- amounts held as floats
\* Every amount of the program is a float.  The model keeps an amount in
\* hundredths, exactly, and where the program compares or floors the float
\* it takes the float itself, from the computation that produced it: the
\* decimal the amount started from and the steps applied to it in order, a
\* step adding (sign 1) or subtracting (sign -1) the product of a whole
\* quantity and a decimal price.
RunningFloat(from, steps) == [from |-> from, steps |-> steps]

\* quantity * price of two floats, the price a decimal of hundredths
\* (backtester.py line 305; avg_arbitrage_strategy.py lines 41, 46, 73, 79
\* and 82)
\* With a price of a whole number of quarters the product is a whole
\* number of quarters, and exact
Cost64(quantity, price) ==
    IF price % 25 = 0 THEN Quarters64(quantity * (price \div 25))
    ELSE Mul64(Float(quantity), Decimal64(price))

\* amount += quantity * price, or amount -= quantity * price (which adds
\* the cost negated)
Step64(x, step) ==
    LET Stepped(cost) == Add64(x, IF step[1] > 0 THEN cost ELSE Neg64(cost))
    IN Stepped(Cost64(step[2], step[3]))

RECURSIVE Value64From(_, _, _)
Value64From(x, steps, k) ==
    IF k > Len(steps) THEN x
    ELSE Value64From(Step64(x, steps[k]), steps, k + 1)

\* the float an amount holds
Value64(running) == Value64From(Decimal64(running.from), running.steps, 1)

\* 1, 0 or -1 as the float x64 is above, equal to or below the float y64,
\* where x and y are the amounts the two floats stand for, exactly and in
\* one unit.  The amounts of the program are multiples of a hundredth
\* divided by a quantity held, and each float is within a billionth of its
\* amount: amounts that differ compare as their floats do, and the floats
\* are worked out only when the amounts are equal
CompareAmounts(x, y, x64, y64) ==
    IF x > y THEN 1 ELSE IF x < y THEN -1 ELSE Cmp64(x64, y64)

\* cost / qty if qty > 0 else 0: the average price of a side held
Average64(cost64, qty) ==
    IF qty > 0 THEN Div64(Value64(cost64), Float(qty)) ELSE Zero64

\* what self.capital has gone through since __init__: line 307 subtracts the
\* cost of every Buy of the log, and line 116 adds the quantity of every
\* position resolved on its winning side (a whole number, the product of
\* itself and 1.0)
CapitalStep(tx) ==
    IF tx.Type = "Buy" THEN <<-1, tx.Quantity, tx.EntryPrice>>
    ELSE <<1, tx.Quantity, One>>

ChangesCapital(tx) ==
    tx.Type = "Buy" \/ (tx.Type = "Resolution" /\ tx.Side = tx.WinningSide)

RECURSIVE CapitalSteps(_)
CapitalSteps(log) ==
    IF log = <<>> THEN <<>>
    ELSE IF ChangesCapital(log[1])
         THEN <<CapitalStep(log[1])>> \o CapitalSteps(Tail(log))
         ELSE CapitalSteps(Tail(log))

\* self.capital of a Backtester built with initial and holding the log
RunningCapital(initial, log) == RunningFloat(initial, CapitalSteps(log))

\* ------------------------------------------------------- trade evaluation
\* line 299: if trade_decision
Truthy(d) == ~d.none /\ Len(d.items) > 0

\* (variant: a quote at the expiration itself still trades)
QuoteExpired_After(ts, row) == ts > row.Expiration

\* line 300: the quote's market has expired
QuoteExpired(ts, row) == ts >= row.Expiration

\* line 303: side, quantity, entry_price, _ = trade_decision
Unpackable(d) == Len(d.items) = 4

\* line 305
Cost(quantity, price) == quantity * price

\* (variant: no check of the cost against capital)
Affordable_Unchecked(cap, cost, cap64, cost64) == TRUE

\* (variant: a cost equal to capital is refused)
Affordable_Strict(cap, cost, cap64, cost64) ==
    IF cap # cost THEN cap > cost ELSE Cmp64(cap64, cost64) > 0

\* line 306: self.capital >= cost, a comparison of two floats, cap64 and
\* cost64.  cap and cost are the same amounts in hundredths; each float is
\* within a billionth of its amount, so the floats compare as the amounts do
\* unless the amounts are equal
Affordable(cap, cost, cap64, cost64) ==
    IF cap # cost THEN cap > cost ELSE Cmp64(cap64, cost64) >= 0

\* self.capital at the quote being processed
Capital64 == Value64(RunningCapital(initial_capital, transactions))

\* ------------------------------------------------------------------ state
\* Backtester.__init__ (with the strategy's call records empty)
Init ==
    /\ initial_capital \in InitialCapitals
    /\ slippage_seconds \in SlippageChoices
    /\ capital = initial_capital
    /\ transactions = <<>>
    /\ open_positions = <<>>
    /\ market_data = <<>>
    /\ market_history = EmptyDict
    /\ pending_market_summaries = EmptyDict
    /\ transactions_by_market = EmptyDict
    /\ portfolio_history = <<>>
    /\ risk_events = <<>>
    /\ pc = "constructed"
    /\ grp = 0
    /\ rowi = 0
    /\ current_timestamp = 0
    /\ trade_decision = NoneDecision
    /\ decide_calls = <<>>
    /\ portfolio_calls = <<>>
    /\ market_states = EmptyDict
    /\ optimized_portfolio = EmptyDict
    /\ delta_case = NoDeltaCase
    /\ delta_passes = <<>>
    /\ hybrid_portfolio = EmptyDict
    /\ hybrid_call = NoHybridCall
    /\ input_file = <<>>
    /\ report = NoReport

\* load_data(file_path) on an existing file
LoadData ==
    /\ pc = "constructed"
    /\ \E file \in Files :
          /\ market_data' \in SortOutcomes(file)
          /\ market_history' = GroupByMarket(market_data')
    /\ pc' = "loaded"
    /\ UNCHANGED <<strategy_vars, scenario_vars,
                   initial_capital, slippage_seconds, capital, transactions,
                   open_positions, pending_market_summaries,
                   transactions_by_market, portfolio_history, risk_events,
                   grp, rowi, current_timestamp, trade_decision,
                   decide_calls, portfolio_calls>>

\* (variant: the failed load also empties the account)
LoadMissingFile_ResetsCapital ==
    /\ pc = "constructed"
    /\ pc' = "not_found"
    /\ capital' = 0
    /\ UNCHANGED <<strategy_vars, scenario_vars,
                   initial_capital, slippage_seconds, transactions,
                   open_positions, market_data, market_history,
                   pending_market_summaries, transactions_by_market,
                   portfolio_history, risk_events, grp, rowi,
                   current_timestamp, trade_decision, decide_calls,
                   portfolio_calls>>

\* load_data(file_path) on a path that does not exist (lines 72-74): the
\* FileNotFoundError is raised before anything is assigned, and the entry
\* points exit or return on it
LoadMissingFile ==
    /\ pc = "constructed"
    /\ pc' = "not_found"
    /\ UNCHANGED <<strategy_vars, scenario_vars,
                   initial_capital, slippage_seconds, capital, transactions,
                   open_positions, market_data, market_history,
                   pending_market_summaries, transactions_by_market,
                   portfolio_history, risk_events, grp, rowi,
                   current_timestamp, trade_decision, decide_calls,
                   portfolio_calls>>

\* the groups the loop of run_strategy iterates over
Keys == GroupKeys(market_data)
CurrentRows == GroupRows(market_data, Keys[grp])
CurrentRow == CurrentRows[rowi]

\* run_strategy lines 233-263: up to the first iteration of the loop
BeginRun ==
    /\ pc = "loaded"
    /\ IF Keys = <<>>
       THEN pc' = "final" /\ grp' = 0
       ELSE pc' = "resolve" /\ grp' = 1
    /\ rowi' = 0
    /\ UNCHANGED <<strategy_vars, scenario_vars,
                   initial_capital, slippage_seconds, capital, transactions,
                   open_positions, market_data, market_history,
                   pending_market_summaries, transactions_by_market,
                   portfolio_history, risk_events, current_timestamp,
                   trade_decision, decide_calls, portfolio_calls>>

RunState ==
    [capital |-> capital, transactions |-> transactions,
     transactions_by_market |-> transactions_by_market,
     pending |-> pending_market_summaries]

\* run_strategy lines 263-292: the head of one iteration, which resolves the
\* positions due at the timestamp and removes them
ResolveExpired ==
    /\ pc = "resolve"
    /\ LET ts == Keys[grp]
           st == ResolveDue(RunState, market_history, open_positions, 1, ts)
           kept == RemoveResolved(open_positions, ts)
       IN /\ current_timestamp' = ts
          /\ capital' = st.capital
          /\ transactions' = st.transactions
          /\ transactions_by_market' = st.transactions_by_market
          /\ pending_market_summaries' = st.pending
          /\ open_positions' = kept
          /\ portfolio_history' =
                IF Len(kept) # Len(open_positions)
                THEN Append(portfolio_history, <<ts, st.capital>>)
                ELSE portfolio_history
    /\ pc' = "quotes"
    /\ rowi' = 1
    /\ UNCHANGED <<strategy_vars, scenario_vars,
                   initial_capital, slippage_seconds, market_data,
                   market_history, risk_events, grp, trade_decision,
                   decide_calls, portfolio_calls>>

\* the loop control after one quote: next row, next timestamp, or the end
Advance ==
    IF rowi < Len(CurrentRows)
    THEN /\ rowi' = rowi + 1
         /\ UNCHANGED <<pc, grp>>
    ELSE /\ rowi' = 0
         /\ IF grp < Len(Keys)
            THEN pc' = "resolve" /\ grp' = grp + 1
            ELSE pc' = "final" /\ UNCHANGED grp

\* line 297: trade_decision = strategy.decide(row, self.capital), returning
\* d; the record of the call keeps what the strategy was given and the length
\* of the transaction log at the call
DecideCalled(d) ==
    /\ trade_decision' = d
    /\ decide_calls' = Append(decide_calls,
          [row |-> CurrentRow, capital |-> capital,
           logged |-> Len(transactions)])

\* lines 297-299: decide returns None or an empty value
NoTrade ==
    /\ pc = "quotes"
    /\ \E d \in Decisions : ~Truthy(d) /\ DecideCalled(d)
    /\ Advance
    /\ UNCHANGED <<strategy_vars, scenario_vars,
                   initial_capital, slippage_seconds, capital, transactions,
                   open_positions, market_data, market_history,
                   pending_market_summaries, transactions_by_market,
                   portfolio_history, risk_events, current_timestamp,
                   portfolio_calls>>

\* lines 299-302: a decision for a market that has expired
RejectExpired ==
    /\ pc = "quotes"
    /\ \E d \in Decisions : Truthy(d) /\ DecideCalled(d)
    /\ QuoteExpired(current_timestamp, CurrentRow)
    /\ Advance
    /\ UNCHANGED <<strategy_vars, scenario_vars,
                   initial_capital, slippage_seconds, capital, transactions,
                   open_positions, market_data, market_history,
                   pending_market_summaries, transactions_by_market,
                   portfolio_history, risk_events, current_timestamp,
                   portfolio_calls>>

\* line 303: the decision does not unpack into four values; the ValueError
\* leaves run_strategy
UnpackFails ==
    /\ pc = "quotes"
    /\ \E d \in Decisions : Truthy(d) /\ ~Unpackable(d) /\ DecideCalled(d)
    /\ ~QuoteExpired(current_timestamp, CurrentRow)
    /\ pc' = "raised"
    /\ UNCHANGED <<strategy_vars, scenario_vars,
                   initial_capital, slippage_seconds, capital, transactions,
                   open_positions, market_data, market_history,
                   pending_market_summaries, transactions_by_market,
                   portfolio_history, risk_events, grp, rowi,
                   current_timestamp, portfolio_calls>>

ExecutedPrice(d) ==
    ApplySlippage(slippage_seconds, market_history, current_timestamp,
                  MarketOf(CurrentRow), d.items[1], d.items[3])

\* (variant: the position is opened at the price the strategy decided)
AcceptTrade_OpensAtDecidedPrice ==
    /\ pc = "quotes"
    /\ ~QuoteExpired(current_timestamp, CurrentRow)
    /\ \E d \in Decisions :
        /\ Truthy(d) /\ Unpackable(d) /\ DecideCalled(d)
        /\ \E entry_price \in {ExecutedPrice(d)} :
           LET m == MarketOf(CurrentRow)
               side == d.items[1]
               quantity == d.items[2]
               cost == Cost(quantity, entry_price)
               trade_log_entry ==
                   [Timestamp |-> current_timestamp, Type |-> "Buy",
                    MarketID |-> m, Side |-> side, Quantity |-> quantity,
                    EntryPrice |-> entry_price, Value |-> cost,
                    PnL |-> -cost]
           IN /\ Affordable(capital, cost, Capital64,
                            Cost64(quantity, entry_price))
              /\ capital' = capital - cost
              /\ portfolio_calls' = Append(portfolio_calls,
                    [market_id |-> m, side |-> side, quantity |-> quantity,
                     price |-> entry_price])
              /\ open_positions' = Append(open_positions,
                    [market_id |-> m, side |-> side, quantity |-> quantity,
                     entry_price |-> d.items[3],
                     expiration |-> CurrentRow.Expiration])
              /\ transactions' = Append(transactions, trade_log_entry)
              /\ transactions_by_market' =
                    AppendAt(transactions_by_market, m, trade_log_entry)
    /\ Advance
    /\ UNCHANGED <<strategy_vars, scenario_vars,
                   initial_capital, slippage_seconds, market_data,
                   market_history, pending_market_summaries,
                   portfolio_history, risk_events, current_timestamp>>

\* lines 303-321: an affordable trade
AcceptTrade ==
    /\ pc = "quotes"
    /\ ~QuoteExpired(current_timestamp, CurrentRow)
    /\ \E d \in Decisions :
        /\ Truthy(d) /\ Unpackable(d) /\ DecideCalled(d)
        /\ \E entry_price \in {ExecutedPrice(d)} :
           LET m == MarketOf(CurrentRow)
               side == d.items[1]
               quantity == d.items[2]
               cost == Cost(quantity, entry_price)
               trade_log_entry ==
                   [Timestamp |-> current_timestamp, Type |-> "Buy",
                    MarketID |-> m, Side |-> side, Quantity |-> quantity,
                    EntryPrice |-> entry_price, Value |-> cost,
                    PnL |-> -cost]
           IN /\ Affordable(capital, cost, Capital64,
                            Cost64(quantity, entry_price))
              /\ capital' = capital - cost
              /\ portfolio_calls' = Append(portfolio_calls,
                    [market_id |-> m, side |-> side, quantity |-> quantity,
                     price |-> entry_price])
              /\ open_positions' = Append(open_positions,
                    [market_id |-> m, side |-> side, quantity |-> quantity,
                     entry_price |-> entry_price,
                     expiration |-> CurrentRow.Expiration])
              /\ transactions' = Append(transactions, trade_log_entry)
              /\ transactions_by_market' =
                    AppendAt(transactions_by_market, m, trade_log_entry)
    /\ Advance
    /\ UNCHANGED <<strategy_vars, scenario_vars,
                   initial_capital, slippage_seconds, market_data,
                   market_history, pending_market_summaries,
                   portfolio_history, risk_events, current_timestamp>>

\* lines 303-306, 322-328: a trade that capital does not cover
RejectInsufficient ==
    /\ pc = "quotes"
    /\ ~QuoteExpired(current_timestamp, CurrentRow)
    /\ \E d \in Decisions :
        /\ Truthy(d) /\ Unpackable(d) /\ DecideCalled(d)
        /\ \E entry_price \in {ExecutedPrice(d)} :
           LET cost == Cost(d.items[2], entry_price)
           IN /\ ~Affordable(capital, cost, Capital64,
                             Cost64(d.items[2], entry_price))
              /\ risk_events' = Append(risk_events,
                    [timestamp |-> current_timestamp,
                     event |-> "Insufficient Capital",
                     details |-> [needed |-> cost, had |-> capital]])
    /\ Advance
    /\ UNCHANGED <<strategy_vars, scenario_vars,
                   initial_capital, slippage_seconds, capital, transactions,
                   open_positions, market_data, market_history,
                   pending_market_summaries, transactions_by_market,
                   portfolio_history, current_timestamp, portfolio_calls>>

\* lines 330-341: force-resolve what is still open, then flush the summaries
\* and return (the locals of run_strategy are gone)
FinalResolve ==
    /\ pc = "final"
    /\ LET st == ResolveAll(RunState, market_history, open_positions, 1,
                            current_timestamp)
       IN /\ capital' = st.capital
          /\ transactions' = st.transactions
          /\ transactions_by_market' = st.transactions_by_market
          /\ open_positions' = <<>>
          /\ IF SummaryReadable(st.pending)
             THEN /\ pending_market_summaries' = EmptyDict
                  /\ pc' = "done"
                  /\ trade_decision' = NoneDecision
             ELSE /\ pending_market_summaries' = st.pending
                  /\ pc' = "raised"
                  /\ UNCHANGED trade_decision
    /\ UNCHANGED <<strategy_vars, scenario_vars,
                   initial_capital, slippage_seconds, market_data,
                   market_history, portfolio_history, risk_events, grp, rowi,
                   current_timestamp, decide_calls, portfolio_calls>>

Next ==
    \/ LoadData
    \/ LoadMissingFile
    \/ BeginRun
    \/ ResolveExpired
    \/ NoTrade
    \/ RejectExpired
    \/ UnpackFails
    \/ AcceptTrade
    \/ RejectInsufficient
    \/ FinalResolve

Spec == Init /\ [][Next]_vars

\* ------------------------------- a run on a file with a market date missing
\* file with the TargetTime field of the rows blank left without text
WithoutTargetTime(file, blank) ==
    [i \in DOMAIN file |->
        IF i \in blank THEN [file[i] EXCEPT !.TargetTime = NaT] ELSE file[i]]

\* load_data(file_path), lines 71-87, on a file in which at least one row
\* has no TargetTime: read_csv reads the empty field as NaT, and the groupby of line 84 makes no group of a row
\* whose TargetTime is NaT, so market_history has no entry for the market
\* of that row, which the loop of run_strategy still quotes
LoadDataWithoutTargetTime ==
    /\ pc = "constructed"
    /\ \E file \in Files, blank \in SUBSET (1..MaxRows) :
          /\ blank # {}
          /\ blank \subseteq DOMAIN file
          /\ market_data' \in SortOutcomes(WithoutTargetTime(file, blank))
          /\ market_history' = GroupByMarket(market_data')
    /\ pc' = "loaded"
    /\ UNCHANGED <<strategy_vars, scenario_vars,
                   initial_capital, slippage_seconds, capital, transactions,
                   open_positions, pending_market_summaries,
                   transactions_by_market, portfolio_history, risk_events,
                   grp, rowi, current_timestamp, trade_decision,
                   decide_calls, portfolio_calls>>

NextWithoutTargetTime ==
    \/ LoadDataWithoutTargetTime
    \/ BeginRun
    \/ ResolveExpired
    \/ NoTrade
    \/ RejectExpired
    \/ UnpackFails
    \/ AcceptTrade
    \/ RejectInsufficient
    \/ FinalResolve

SpecWithoutTargetTime == Init /\ [][NextWithoutTargetTime]_vars

\* ------------------------------------------- a run with the file beside it
\* load_data(file_path) on an existing file, as LoadData, with the rows of
\* the file (what read_csv returned, line 77) kept for comparison
LoadFile ==
    /\ pc = "constructed"
    /\ \E file \in Files :
          /\ input_file' = file
          /\ market_data' \in SortOutcomes(file)
          /\ market_history' = GroupByMarket(market_data')
    /\ pc' = "loaded"
    /\ UNCHANGED <<strategy_vars, report,
                   initial_capital, slippage_seconds, capital, transactions,
                   open_positions, pending_market_summaries,
                   transactions_by_market, portfolio_history, risk_events,
                   grp, rowi, current_timestamp, trade_decision,
                   decide_calls, portfolio_calls>>

NextFile ==
    \/ LoadFile
    \/ BeginRun
    \/ ResolveExpired
    \/ NoTrade
    \/ RejectExpired
    \/ UnpackFails
    \/ AcceptTrade
    \/ RejectInsufficient
    \/ FinalResolve

SpecFile == Init /\ [][NextFile]_vars

\* ------------------------------------ a run with slippage on a longer file
\* the number of quotes of a data file of these runs: the quote traded on,
\* and after it quotes of its market and of the other market
MaxSlippageRows == 4

\* the capital of these runs: it covers ten shares at 0.48 or 0.50 and not
\* at 0.52 or 0.55
SlippageCapitals == {500}

\* the files of these runs: one quote every second, each of either market
\* and with either side the dearer, or without an ask for Up
SlippageAskPairs == {<<48, 55>>, <<55, 48>>, <<0, 55>>}

SlippageFiles ==
    {[i \in 1..MaxSlippageRows |-> Row(i, market[i], asks[i])] :
        market \in [1..MaxSlippageRows -> Markets],
        asks \in [1..MaxSlippageRows -> SlippageAskPairs]}

\* Backtester(initial_capital, slippage_seconds) with slippage_seconds > 0
InitSlippage ==
    /\ Init
    /\ slippage_seconds > 0
    /\ initial_capital \in SlippageCapitals

\* load_data(file_path), lines 71-87, on one of these files
LoadSlippageData ==
    /\ pc = "constructed"
    /\ \E file \in SlippageFiles :
          /\ market_data' \in SortOutcomes(file)
          /\ market_history' = GroupByMarket(market_data')
    /\ pc' = "loaded"
    /\ UNCHANGED <<strategy_vars, scenario_vars,
                   initial_capital, slippage_seconds, capital, transactions,
                   open_positions, pending_market_summaries,
                   transactions_by_market, portfolio_history, risk_events,
                   grp, rowi, current_timestamp, trade_decision,
                   decide_calls, portfolio_calls>>

NextSlippage ==
    \/ LoadSlippageData
    \/ BeginRun
    \/ ResolveExpired
    \/ NoTrade
    \/ RejectExpired
    \/ UnpackFails
    \/ AcceptTrade
    \/ RejectInsufficient
    \/ FinalResolve

SpecSlippage == InitSlippage /\ [][NextSlippage]_vars

\* ------------------------------------------- a run with AvgArbitrageStrategy
\* AvgArbitrageStrategy(margin=0.01, initial_trade_capital_percentage=0.05,
\* max_capital_allocation_percentage=0.50), as avg_arbitrage_backtester.py
\* builds it; percentages and margin in hundredths
Margin == 1
InitialTradeCapitalPercentage == 5
MaxCapitalAllocationPercentage == 50
MinImbalanceThreshold == 5

\* config.py lines 47-48, the defaults of Backtester.__init__ (backtester.py
\* line 18): INITIAL_CAPITAL = 1000.0 and SLIPPAGE_SECONDS = 0
ConfigInitialCapital == 100000
ConfigSlippageSeconds == 0

\* initial_capital_per_market is None
NoCapital == -1

\* the default of market_states (lines 14-20).  Beside each amount in
\* hundredths stands, with 64 in its name, the float the field holds, as the
\* computation that produced it
NewMarketState ==
    [up_qty |-> 0, down_qty |-> 0, up_total_cost |-> 0,
     down_total_cost |-> 0, initial_capital_per_market |-> NoCapital,
     up_total_cost64 |-> RunningFloat(0, <<>>),
     down_total_cost64 |-> RunningFloat(0, <<>>),
     initial_capital_per_market64 |-> RunningFloat(0, <<>>)]

\* self.market_states[market_id] of the defaultdict
MarketState(states, m) ==
    IF m \in DOMAIN states THEN states[m] ELSE NewMarketState

\* state['<side>_qty'] += qty; state['<side>_total_cost'] += qty * price
AddHolding(state, side, qty, price) ==
    IF side = "Up"
    THEN [state EXCEPT !.up_qty = @ + qty, !.up_total_cost = @ + qty * price,
                       !.up_total_cost64.steps = Append(@, <<1, qty, price>>)]
    ELSE [state EXCEPT !.down_qty = @ + qty,
                       !.down_total_cost = @ + qty * price,
                       !.down_total_cost64.steps =
                           Append(@, <<1, qty, price>>)]

\* line 37: math.floor(current_capital * initial_trade_capital_percentage).
\* The float product is within a billionth of the exact one, which is a
\* whole number or at least 0.0005 away from one
FirstQuantity(current_capital, current_capital64) ==
    IF (current_capital * InitialTradeCapitalPercentage) % (One * 100) # 0
    THEN (current_capital * InitialTradeCapitalPercentage) \div (One * 100)
    ELSE Floor64(Mul64(Value64(current_capital64),
                       Decimal64(InitialTradeCapitalPercentage)))

\* lines 36-48: the first trade in a market
AvgFirstTrade(state, up_price, down_price, current_capital, capital64) ==
    LET Sized(qty_to_buy) ==
            IF down_price < up_price /\ 40 < down_price /\ down_price < 60
            THEN IF qty_to_buy > 0
                 THEN [decision |->
                           TupleDecision(<<"Down", qty_to_buy, down_price,
                                           One>>),
                       state |->
                           AddHolding(state, "Down", qty_to_buy, down_price)]
                 ELSE [decision |-> NoneDecision, state |-> state]
            ELSE IF up_price < down_price /\ 40 < up_price /\ up_price < 60
            THEN IF qty_to_buy > 0
                 THEN [decision |->
                           TupleDecision(<<"Up", qty_to_buy, up_price, One>>),
                       state |-> AddHolding(state, "Up", qty_to_buy, up_price)]
                 ELSE [decision |-> NoneDecision, state |-> state]
            ELSE [decision |-> NoneDecision, state |-> state]
    IN Sized(FirstQuantity(current_capital, capital64))

\* 1 + self.margin and 1 - self.margin
OnePlusMargin64 == Add64(Float(1), Decimal64(Margin))
OneMinusMargin64 == Sub64(Float(1), Decimal64(Margin))

\* the quantity and the total cost of the side held when side is bought
HeldQty(state, side) ==
    IF side = "Up" THEN state.down_qty ELSE state.up_qty

HeldCost(state, side) ==
    IF side = "Up" THEN state.down_total_cost ELSE state.up_total_cost

HeldCost64(state, side) ==
    IF side = "Up" THEN state.down_total_cost64 ELSE state.up_total_cost64

BoughtCost64(state, side) ==
    IF side = "Up" THEN state.up_total_cost64 ELSE state.down_total_cost64

\* lines 55-58, 65: average cost of the side held + ask of the side bought
\* < 1 - margin.  In hundredths the two sides differ by a multiple of
\* 1 / held quantity, so the floats compare as they do unless they are equal
BelowMargin(state, side, price) ==
    LET held_qty == HeldQty(state, side)
        held_cost == HeldCost(state, side)
    IN IF held_cost + price * held_qty # (One - Margin) * held_qty
       THEN held_cost + price * held_qty < (One - Margin) * held_qty
       ELSE Cmp64(Add64(Div64(Value64(HeldCost64(state, side)),
                              Float(held_qty)),
                        Decimal64(price)),
                  OneMinusMargin64) < 0

\* (variant: the quantity is sized on the payout without the margin)
BalancingQuantity_Unmargined(state, side, price) ==
    (HeldQty(state, side) * One
        - (state.up_total_cost + state.down_total_cost))
    \div price

\* lines 59-60, 66-67: floor((held_qty / (1 + margin) - <total cost of the
\* side bought> - <total cost of the side held>) / price).  The exact
\* quotient is a whole number or at least 0.0001 away from one, and the
\* float is within a billionth of it
BalancingQuantity(state, side, price) ==
    LET held_qty == HeldQty(state, side)
        exact_numerator ==
            held_qty * One * 100
                - (100 + Margin) * (state.up_total_cost + state.down_total_cost)
        numerator ==
            Sub64(Sub64(Div64(Float(held_qty), OnePlusMargin64),
                        Value64(BoughtCost64(state, side))),
                  Value64(HeldCost64(state, side)))
    IN IF exact_numerator % ((100 + Margin) * price) # 0
       THEN exact_numerator \div ((100 + Margin) * price)
       ELSE Floor64(Div64(numerator, Decimal64(price)))

\* line 74: projected_total_cost > max_capital_allocation_percentage *
\* initial_capital_per_market, where projected_total_cost is (line 73)
\* up_total_cost + down_total_cost + qty_to_buy * price
ExceedsAllocation(state, qty_to_buy, price) ==
    LET projected_total_cost ==
            state.up_total_cost + state.down_total_cost + qty_to_buy * price
        limit == MaxCapitalAllocationPercentage
                     * state.initial_capital_per_market
    IN IF 100 * projected_total_cost # limit
       THEN 100 * projected_total_cost > limit
       ELSE Cmp64(Add64(Add64(Value64(state.up_total_cost64),
                              Value64(state.down_total_cost64)),
                        Cost64(qty_to_buy, price)),
                  Mul64(Decimal64(MaxCapitalAllocationPercentage),
                        Value64(state.initial_capital_per_market64))) > 0

\* lines 72-86: the trade of qty_to_buy on side, unless the quantity or the
\* side is unset or the trade exceeds the allocation of the market
AvgCommitTrade(state, side, qty_to_buy, price) ==
    IF qty_to_buy > 0 /\ side # "None"
    THEN IF ExceedsAllocation(state, qty_to_buy, price)
         THEN [decision |-> NoneDecision, state |-> state]
         ELSE [decision |-> TupleDecision(<<side, qty_to_buy, price, One>>),
               state |-> AddHolding(state, side, qty_to_buy, price)]
    ELSE [decision |-> NoneDecision, state |-> state]

\* lines 61-63 and 68-70: side and price are set when the quantity
\* outweighs the imbalance by more than the threshold
AvgChooseSide(state, up_price, down_price, buy_up, buy_down, qty_to_buy) ==
    AvgCommitTrade(state,
                   IF buy_up /\ state.up_qty + qty_to_buy
                                  > state.down_qty + MinImbalanceThreshold
                   THEN "Up"
                   ELSE IF buy_down /\ state.down_qty + qty_to_buy
                                         > state.up_qty + MinImbalanceThreshold
                   THEN "Down"
                   ELSE "None",
                   qty_to_buy,
                   IF buy_up THEN up_price ELSE down_price)

\* lines 59-60 and 66-67: qty_to_buy in the branch taken, 0 (line 51) in
\* neither
AvgSizeTrade(state, up_price, down_price, buy_up, buy_down) ==
    AvgChooseSide(state, up_price, down_price, buy_up, buy_down,
                  IF buy_up \/ buy_down
                  THEN BalancingQuantity(state,
                                         IF buy_up THEN "Up" ELSE "Down",
                                         IF buy_up THEN up_price
                                         ELSE down_price)
                  ELSE 0)

\* line 65: the elif, reached when the condition of line 58 (buy_up) is
\* false
AvgSecondBranch(state, up_price, down_price, buy_up) ==
    AvgSizeTrade(state, up_price, down_price, buy_up,
                 /\ ~buy_up
                 /\ state.down_qty < state.up_qty
                 /\ BelowMargin(state, "Down", down_price))

\* lines 50-86: the balancing trade in a market that holds something, from
\* the condition of line 58 on
AvgBalancingTrade(state, up_price, down_price) ==
    AvgSecondBranch(state, up_price, down_price,
                    /\ state.up_qty < state.down_qty
                    /\ BelowMargin(state, "Up", up_price))

\* AvgArbitrageStrategy.decide (lines 22-86) on the state of the quote's
\* market, called with current_capital (and the float it is): the decision
\* returned and the state decide leaves behind
AvgDecide(state0, row, current_capital, current_capital64) ==
    LET state ==
            IF state0.initial_capital_per_market = NoCapital
            THEN [state0 EXCEPT
                     !.initial_capital_per_market = current_capital,
                     !.initial_capital_per_market64 = current_capital64]
            ELSE state0
    IN IF row.UpAsk = 0 \/ row.DownAsk = 0
       THEN [decision |-> NoneDecision, state |-> state]
       ELSE IF state.up_qty = 0 /\ state.down_qty = 0
       THEN AvgFirstTrade(state, row.UpAsk, row.DownAsk, current_capital,
                          current_capital64)
       ELSE AvgBalancingTrade(state, row.UpAsk, row.DownAsk)

\* market_states with the state of market m replaced
SetMarketState(states, m, state) ==
    [x \in DOMAIN states \cup {m} |-> IF x = m THEN state ELSE states[x]]

\* avg_arbitrage_backtester.py main, lines 27-34: the strategy built and
\* Backtester() constructed with no argument
InitAvgArbitrage ==
    /\ initial_capital = ConfigInitialCapital
    /\ slippage_seconds = ConfigSlippageSeconds
    /\ capital = initial_capital
    /\ transactions = <<>>
    /\ open_positions = <<>>
    /\ market_data = <<>>
    /\ market_history = EmptyDict
    /\ pending_market_summaries = EmptyDict
    /\ transactions_by_market = EmptyDict
    /\ portfolio_history = <<>>
    /\ risk_events = <<>>
    /\ pc = "constructed"
    /\ grp = 0
    /\ rowi = 0
    /\ current_timestamp = 0
    /\ trade_decision = NoneDecision
    /\ decide_calls = <<>>
    /\ portfolio_calls = <<>>
    /\ market_states = EmptyDict
    /\ optimized_portfolio = EmptyDict
    /\ delta_case = NoDeltaCase
    /\ delta_passes = <<>>
    /\ hybrid_portfolio = EmptyDict
    /\ hybrid_call = NoHybridCall
    /\ input_file = <<>>
    /\ report = NoReport

\* the data files of these runs: the asks of Files, and a quote on which the
\* strategy balances a position bought at 0.48
AvgAskPairs == AskPairs \cup {<<40, 55>>}

AvgRows == {Row(t, m, a) : t \in 1..MaxTime, m \in Markets, a \in AvgAskPairs}

AvgFiles == UNION {[1..n -> AvgRows] : n \in 1..MaxRows}

\* load_data (backtester.py lines 71-87) on such a file
LoadAvgData ==
    /\ pc = "constructed"
    /\ \E file \in AvgFiles :
          /\ market_data' \in SortOutcomes(file)
          /\ market_history' = GroupByMarket(market_data')
    /\ pc' = "loaded"
    /\ UNCHANGED <<strategy_vars, scenario_vars,
                   initial_capital, slippage_seconds, capital, transactions,
                   open_positions, pending_market_summaries,
                   transactions_by_market, portfolio_history, risk_events,
                   grp, rowi, current_timestamp, trade_decision,
                   decide_calls, portfolio_calls>>

\* run_strategy lines 295-328 for one quote, with the strategy's decide at
\* line 297 and the inherited update_portfolio (base_strategy.py: pass) at
\* line 309
AvgQuote ==
    /\ pc = "quotes"
    /\ \E r \in {AvgDecide(MarketState(market_states, MarketOf(CurrentRow)),
                           CurrentRow, capital,
                           RunningCapital(initial_capital, transactions))} :
       LET m == MarketOf(CurrentRow)
           d == r.decision
       IN /\ market_states' = SetMarketState(market_states, m, r.state)
          /\ DecideCalled(d)
          /\ IF ~Truthy(d) \/ QuoteExpired(current_timestamp, CurrentRow)
             THEN UNCHANGED <<capital, portfolio_calls, open_positions,
                              transactions, transactions_by_market,
                              risk_events>>
             ELSE
               LET side == d.items[1]
                   quantity == d.items[2]
                   entry_price == ExecutedPrice(d)
                   cost == Cost(quantity, entry_price)
                   trade_log_entry ==
                       [Timestamp |-> current_timestamp, Type |-> "Buy",
                        MarketID |-> m, Side |-> side, Quantity |-> quantity,
                        EntryPrice |-> entry_price, Value |-> cost,
                        PnL |-> -cost]
               IN IF Affordable(capital, cost, Capital64,
                                Cost64(quantity, entry_price))
                  THEN /\ capital' = capital - cost
                       /\ portfolio_calls' = Append(portfolio_calls,
                             [market_id |-> m, side |-> side,
                              quantity |-> quantity, price |-> entry_price])
                       /\ open_positions' = Append(open_positions,
                             [market_id |-> m, side |-> side,
                              quantity |-> quantity,
                              entry_price |-> entry_price,
                              expiration |-> CurrentRow.Expiration])
                       /\ transactions' = Append(transactions, trade_log_entry)
                       /\ transactions_by_market' =
                             AppendAt(transactions_by_market, m,
                                      trade_log_entry)
                       /\ UNCHANGED risk_events
                  ELSE /\ risk_events' = Append(risk_events,
                             [timestamp |-> current_timestamp,
                              event |-> "Insufficient Capital",
                              details |-> [needed |-> cost, had |-> capital]])
                       /\ UNCHANGED <<capital, portfolio_calls,
                                      open_positions, transactions,
                                      transactions_by_market>>
    /\ Advance
    /\ UNCHANGED <<delta_case, delta_passes, hybrid_vars, optimized_vars,
                   scenario_vars,
                   initial_capital, slippage_seconds, market_data,
                   market_history, pending_market_summaries,
                   portfolio_history, current_timestamp>>

\* ------------------------------- the ledger of RebalancingStrategy and
\* HybridStrategy (portfolio_state), which only update_portfolio changes
\* _get_or_init_portfolio: the entry of a market not yet seen.  Beside each
\* cost in hundredths stands, with 64 in its name, the float the field
\* holds, as the computation that produced it
NewPortfolio ==
    [qty_yes |-> 0, qty_no |-> 0, cost_yes |-> 0, cost_no |-> 0,
     cost_yes64 |-> RunningFloat(0, <<>>),
     cost_no64 |-> RunningFloat(0, <<>>)]

PortfolioOf(portfolio_state, market_id) ==
    IF market_id \in DOMAIN portfolio_state
    THEN portfolio_state[market_id] ELSE NewPortfolio

\* (variant: the cost booked is the price of one share)
UpdatePortfolio_UnitCost(portfolio_state, market_id, side, quantity, price) ==
    LET portfolio == PortfolioOf(portfolio_state, market_id)
        updated ==
            IF side = "Up"
            THEN [portfolio EXCEPT !.qty_yes = @ + quantity,
                                   !.cost_yes = @ + price,
                                   !.cost_yes64.steps =
                                       Append(@, <<1, 1, price>>)]
            ELSE [portfolio EXCEPT !.qty_no = @ + quantity,
                                   !.cost_no = @ + price,
                                   !.cost_no64.steps =
                                       Append(@, <<1, 1, price>>)]
    IN [x \in DOMAIN portfolio_state \cup {market_id} |->
           IF x = market_id THEN updated ELSE portfolio_state[x]]

\* update_portfolio(market_id, side, quantity, price) of RebalancingStrategy
\* (lines 209-217) and HybridStrategy (lines 218-226): cost = quantity *
\* price is added to the cost of the side, a float
UpdatePortfolio(portfolio_state, market_id, side, quantity, price) ==
    LET portfolio == PortfolioOf(portfolio_state, market_id)
        cost == quantity * price
        updated ==
            IF side = "Up"
            THEN [portfolio EXCEPT !.qty_yes = @ + quantity,
                                   !.cost_yes = @ + cost,
                                   !.cost_yes64.steps =
                                       Append(@, <<1, quantity, price>>)]
            ELSE IF side = "Down"
            THEN [portfolio EXCEPT !.qty_no = @ + quantity,
                                   !.cost_no = @ + cost,
                                   !.cost_no64.steps =
                                       Append(@, <<1, quantity, price>>)]
            ELSE portfolio
    IN [x \in DOMAIN portfolio_state \cup {market_id} |->
           IF x = market_id THEN updated ELSE portfolio_state[x]]

\* portfolio_state of a strategy constructed for the run, after the calls of
\* update_portfolio the Backtester has made (line 309)
RECURSIVE PortfolioStateAfter(_)
PortfolioStateAfter(calls) ==
    IF calls = <<>> THEN EmptyDict
    ELSE LET call == Last(calls)
         IN UpdatePortfolio(
                PortfolioStateAfter(SubSeq(calls, 1, Len(calls) - 1)),
                call.market_id, call.side, call.quantity, call.price)

\* ----------------------------------- the delta constraint of the strategies
\* MAX_UNHEDGED_DELTA (rebalancing_strategy.py:12, hybrid_strategy.py)
MaxUnhedgedDelta == 50

\* update_portfolio calls made on the strategy before the constraint is asked
MaxUpdates == 2

\* quantities of those calls and candidate quantities of the constraint
HeldQuantities == {10, 45, 60}
CandidateQuantities == {0, 5, 20, 50, 110}

\* the market whose portfolio is checked
DeltaMarket == <<2, 2>>

Abs(x) == IF x < 0 THEN -x ELSE x

\* (variant: every quantity passes)
CheckDeltaConstraint_Unchecked(portfolio, target_side, qty_to_buy) == TRUE

\* (variant: a trade passes only if it narrows the imbalance)
CheckDeltaConstraint_MustNarrow(portfolio, target_side, qty_to_buy) ==
    LET current_delta == portfolio.qty_yes - portfolio.qty_no
        new_delta == IF target_side = "Up" THEN current_delta + qty_to_buy
                     ELSE current_delta - qty_to_buy
    IN Abs(new_delta) < Abs(current_delta)

\* check_delta_constraint(portfolio, target_side, qty_to_buy) of
\* RebalancingStrategy (lines 71-83) and HybridStrategy (lines 92-98)
CheckDeltaConstraint(portfolio, target_side, qty_to_buy) ==
    LET current_delta == portfolio.qty_yes - portfolio.qty_no
        new_delta == IF target_side = "Up" THEN current_delta + qty_to_buy
                     ELSE current_delta - qty_to_buy
    IN Abs(new_delta) <= MaxUnhedgedDelta

\* a strategy just constructed, no Backtester run under way
InitDelta ==
    /\ initial_capital \in InitialCapitals
    /\ slippage_seconds = 0
    /\ capital = initial_capital
    /\ transactions = <<>>
    /\ open_positions = <<>>
    /\ market_data = <<>>
    /\ market_history = EmptyDict
    /\ pending_market_summaries = EmptyDict
    /\ transactions_by_market = EmptyDict
    /\ portfolio_history = <<>>
    /\ risk_events = <<>>
    /\ pc = "constructed"
    /\ grp = 0
    /\ rowi = 0
    /\ current_timestamp = 0
    /\ trade_decision = NoneDecision
    /\ decide_calls = <<>>
    /\ portfolio_calls = <<>>
    /\ market_states = EmptyDict
    /\ optimized_portfolio = EmptyDict
    /\ delta_case = [none |-> FALSE, portfolio_state |-> EmptyDict]
    /\ delta_passes = <<>>
    /\ hybrid_portfolio = EmptyDict
    /\ hybrid_call = NoHybridCall
    /\ input_file = <<>>
    /\ report = NoReport

backtester_vars ==
    <<initial_capital, slippage_seconds, capital, transactions,
      open_positions, market_data, market_history,
      pending_market_summaries, transactions_by_market, portfolio_history,
      risk_events, pc, grp, rowi, current_timestamp, trade_decision,
      decide_calls>>

\* strategy.update_portfolio(market_id, side, quantity, price), called on
\* the strategy directly (as tests/test_stop_loss.py does)
DeltaUpdatePortfolio ==
    /\ delta_passes = <<>>
    /\ Len(portfolio_calls) < MaxUpdates
    /\ \E side \in Sides, quantity \in HeldQuantities :
          /\ delta_case' =
                [delta_case EXCEPT !.portfolio_state =
                    UpdatePortfolio(@, DeltaMarket, side, quantity, 50)]
          /\ portfolio_calls' = Append(portfolio_calls,
                [market_id |-> DeltaMarket, side |-> side,
                 quantity |-> quantity, price |-> 50])
    /\ UNCHANGED <<backtester_vars, optimized_vars, market_states, delta_passes,
                   hybrid_vars, scenario_vars>>

\* check_delta_constraint asked for a candidate quantity and for a smaller
\* one on the same side and the same portfolio
DeltaCheckPair ==
    /\ delta_passes = <<>>
    /\ \E side \in Sides, larger \in CandidateQuantities,
          smaller \in CandidateQuantities :
          /\ smaller <= larger
          /\ LET portfolio ==
                     PortfolioOf(delta_case.portfolio_state, DeltaMarket)
             IN delta_passes' =
                   <<[side |-> side, larger |-> larger, smaller |-> smaller,
                      larger_passes |->
                          CheckDeltaConstraint(portfolio, side, larger),
                      smaller_passes |->
                          CheckDeltaConstraint(portfolio, side, smaller)]>>
    /\ UNCHANGED <<backtester_vars, optimized_vars, market_states, delta_case,
                   portfolio_calls, hybrid_vars, scenario_vars>>

NextDelta ==
    \/ DeltaUpdatePortfolio
    \/ DeltaCheckPair

SpecDelta == InitDelta /\ [][NextDelta]_vars

\* ------------------------------------------------ decide of HybridStrategy
\* HybridStrategy.__init__ (lines 8-23), money and prices in hundredths
MaxHedgingCost == 98
StopLossThreshold == 130
MaxAllocationPerRebalancePercent == 50
MinBalanceQty == 1
MinLiquidityMultiplier == 3
MinMinute == 2
MaxMinute == 7
MaxAllocationPerTradePercent == 5
PriceDeltaWeight == 1
LiquidityImbalanceWeight == 1
MinScoreThreshold == 1

\* an UpMidDelta for which pd.isna is true
NaN == -999

\* the market of the quotes given to decide
HybridMarket == <<2, 2>>

\* a market_data_point as the tests of the strategy build it
Quote(up, down, liquidity, minute, sharp, mid_delta, imbalance) ==
    [TargetTime |-> HybridMarket[1], Expiration |-> HybridMarket[2],
     UpAsk |-> up, DownAsk |-> down,
     UpAskLiquidity |-> liquidity, DownAskLiquidity |-> liquidity,
     MinuteFromStart |-> minute, SharpEvent |-> sharp,
     UpMidDelta |-> mid_delta,
     DownMidDelta |-> IF mid_delta = NaN THEN NaN ELSE -mid_delta,
     BidLiquidityImbalance |-> imbalance]

\* the quotes of tests/test_stop_loss.py and of
\* tests/analysis/strategies/test_hybrid_strategy.py, a quote whose ask
\* passes the stop-loss threshold, quotes inside the signal window, quotes
\* with little liquidity, and a quote whose UpAsk divides the capital
\* allowed to a trade
HybridQuotes ==
    {Quote(70, 61, 500, 8, FALSE, 1, 10),
     Quote(70, 20, 500, 8, FALSE, 1, 10),
     Quote(55, 45, 500, 8, FALSE, 1, 10),
     Quote(40, 60, 200, 8, TRUE, 1, 1),
     Quote(60, 40, 200, 8, TRUE, 1, 1),
     Quote(30, 77, 500, 8, FALSE, 1, 10),
     Quote(30, 77, 100, 8, FALSE, 1, 10),
     Quote(55, 45, 500, 3, TRUE, 1, 10),
     Quote(55, 45, 500, 3, TRUE, -1, -10),
     Quote(55, 45, 500, 3, TRUE, NaN, 10),
     Quote(0, 45, 500, 3, TRUE, 1, 10),
     Quote(7, 93, 500, 3, TRUE, 1, 10)}

\* the capital given to decide (1000 dollars as in the tests, and 70)
HybridCapitals == {100000, 7000}

\* the holdings the tests set with update_portfolio
HybridHeldQuantities == {0, 50, 100}
HybridHeldPrices == {40, 50, 60}

\* _get_signal (lines 34-52)
GetSignal(market_data_point) ==
    LET up_score ==
            (IF market_data_point.UpMidDelta > 0
             THEN PriceDeltaWeight ELSE 0)
            + (IF market_data_point.BidLiquidityImbalance > 0
               THEN LiquidityImbalanceWeight ELSE 0)
        down_score ==
            (IF market_data_point.DownMidDelta > 0
             THEN PriceDeltaWeight ELSE 0)
            + (IF market_data_point.BidLiquidityImbalance < 0
               THEN LiquidityImbalanceWeight ELSE 0)
    IN IF up_score >= MinScoreThreshold THEN "Up"
       ELSE IF down_score >= MinScoreThreshold THEN "Down"
       ELSE "None"

\* check_liquidity_constraint (lines 81-90): the liquidity read is that of
\* the side opposite to the one bought, and the opposite of every side but
\* Up is Up (line 82)
CheckLiquidityConstraint(market_data_point, target_side, qty_to_buy) ==
    LET available_liquidity ==
            IF target_side = "Up" THEN market_data_point.DownAskLiquidity
            ELSE market_data_point.UpAskLiquidity
    IN available_liquidity >= qty_to_buy * MinLiquidityMultiplier

\* lines 107-110 and 113-116 for the side bought, lines 103-104 for the
\* other: (cost + qty_to_buy * price) / (qty + qty_to_buy), or the average
\* of what is held
BoughtAverage64(cost64, qty, bought, qty_to_buy, price) ==
    IF bought
    THEN Div64(Add64(Value64(cost64), Cost64(qty_to_buy, price)),
               Float(qty + qty_to_buy))
    ELSE Average64(cost64, qty)

\* check_hedging_cost_constraint (lines 100-120): the average of the side
\* bought after the trade plus the average of the other side is below
\* MAX_HEDGING_COST.  The two averages are the fractions num_yes / den_yes
\* and num_no / den_no
CheckHedgingCostConstraint(portfolio, target_side, qty_to_buy, price) ==
    LET buys_yes == target_side = "Up"
        buys_no == target_side = "Down"
        num_yes == IF buys_yes THEN portfolio.cost_yes + qty_to_buy * price
                   ELSE IF portfolio.qty_yes > 0 THEN portfolio.cost_yes
                   ELSE 0
        den_yes == IF buys_yes THEN portfolio.qty_yes + qty_to_buy
                   ELSE IF portfolio.qty_yes > 0 THEN portfolio.qty_yes
                   ELSE 1
        num_no == IF buys_no THEN portfolio.cost_no + qty_to_buy * price
                  ELSE IF portfolio.qty_no > 0 THEN portfolio.cost_no
                  ELSE 0
        den_no == IF buys_no THEN portfolio.qty_no + qty_to_buy
                  ELSE IF portfolio.qty_no > 0 THEN portfolio.qty_no
                  ELSE 1
        sign == IF den_yes * den_no < 0 THEN -1 ELSE 1
    IN IF ~buys_yes /\ ~buys_no THEN FALSE
       ELSE IF den_yes = 0 \/ den_no = 0 THEN FALSE
       ELSE CompareAmounts(
                sign * (num_yes * den_no + num_no * den_yes),
                sign * MaxHedgingCost * den_yes * den_no,
                Add64(BoughtAverage64(portfolio.cost_yes64, portfolio.qty_yes,
                                      buys_yes, qty_to_buy, price),
                      BoughtAverage64(portfolio.cost_no64, portfolio.qty_no,
                                      buys_no, qty_to_buy, price)),
                Decimal64(MaxHedgingCost)) < 0

\* current_capital * MAX_ALLOCATION_PER_REBALANCE, rounded towards 0 as int
\* does.  Half of a float is exact, and the capital given to decide is a
\* decimal of hundredths, whose half is a whole number only when the
\* capital is one
RebalanceAllowance(current_capital) ==
    IF current_capital >= 0
    THEN (current_capital * MaxAllocationPerRebalancePercent)
             \div (One * 100)
    ELSE -((-current_capital * MaxAllocationPerRebalancePercent)
               \div (One * 100))

\* (variant: the search starts from the capital allowance alone)
RebalanceStart_AllowanceOnly(quantity_delta, current_capital) ==
    RebalanceAllowance(current_capital)

\* lines 177, 206: int(min(quantity_delta, current_capital * 0.5))
RebalanceStart(quantity_delta, current_capital) ==
    IF quantity_delta * One * 100
           <= current_capital * MaxAllocationPerRebalancePercent
    THEN quantity_delta
    ELSE RebalanceAllowance(current_capital)

\* (variant: the search counts up and stops at the smallest passing
\* quantity)
LargestPassing_Smallest(passing) ==
    IF passing = {} THEN 0
    ELSE CHOOSE q \in passing : \A other \in passing : q <= other

\* the loops at lines 179-189 and 207-215 count qty_to_buy down from the
\* start and stop at the first quantity that passes: the largest of the
\* passing quantities, or 0 when none passes
LargestPassing(passing) ==
    IF passing = {} THEN 0
    ELSE CHOOSE q \in passing : \A other \in passing : other <= q

\* cost = qty_to_buy * target_price is not above current_capital (lines
\* 180-181, 208-209 and 157-158; rebalancing_strategy.py lines 141-142 and
\* 188-189), the float current_capital64
WithinCapital(qty_to_buy, target_price, current_capital, current_capital64) ==
    CompareAmounts(qty_to_buy * target_price, current_capital,
                   Cost64(qty_to_buy, target_price),
                   current_capital64) <= 0

\* lines 176-189: the rebalance under the hedging-cost ceiling
SafeRebalanceQuantity(portfolio, row, target_side, target_price, cash) ==
    LET start == RebalanceStart(Abs(portfolio.qty_yes - portfolio.qty_no),
                                cash)
    IN LargestPassing(
           {q \in 1..start :
               /\ WithinCapital(q, target_price, cash, Decimal64(cash))
               /\ CheckDeltaConstraint(portfolio, target_side, q)
               /\ CheckLiquidityConstraint(row, target_side, q)
               /\ CheckHedgingCostConstraint(portfolio, target_side, q,
                                             target_price)})

\* avg + target_price >= STOP_LOSS_THRESHOLD for the side held, whose
\* average calculate_state (lines 61-62, 74-75) takes through the text of
\* the float cost / qty, which denotes that float again: 0 for an empty side
ReachesStopLoss(cost, qty, cost64, target_price) ==
    CompareAmounts(
        IF qty > 0 THEN cost + target_price * qty ELSE target_price,
        IF qty > 0 THEN StopLossThreshold * qty ELSE StopLossThreshold,
        Add64(Average64(cost64, qty), Decimal64(target_price)),
        Decimal64(StopLossThreshold)) >= 0

\* lines 195-203: the average cost of the held side plus the ask of the side
\* to buy reaches STOP_LOSS_THRESHOLD
StopLossTriggered(portfolio, target_side, target_price) ==
    IF target_side = "Down"
    THEN ReachesStopLoss(portfolio.cost_yes, portfolio.qty_yes,
                         portfolio.cost_yes64, target_price)
    ELSE IF target_side = "Up"
    THEN ReachesStopLoss(portfolio.cost_no, portfolio.qty_no,
                         portfolio.cost_no64, target_price)
    ELSE FALSE

\* lines 205-215: the forced hedge
StopLossQuantity(portfolio, row, target_side, target_price, cash) ==
    LET start == RebalanceStart(Abs(portfolio.qty_yes - portfolio.qty_no),
                                cash)
    IN LargestPassing(
           {q \in 1..start :
               /\ WithinCapital(q, target_price, cash, Decimal64(cash))
               /\ CheckDeltaConstraint(portfolio, target_side, q)
               /\ CheckLiquidityConstraint(row, target_side, q)})

\* lines 151-152: math.floor(current_capital * MAX_ALLOCATION_PER_TRADE /
\* ask_price).  The exact quotient is a whole number or at least 0.0001
\* away from one, and the float is within a billionth of it
OpeningQuantity(current_capital, ask_price) ==
    IF (current_capital * MaxAllocationPerTradePercent) % (100 * ask_price)
           # 0
    THEN (current_capital * MaxAllocationPerTradePercent)
             \div (100 * ask_price)
    ELSE Floor64(Div64(Mul64(Decimal64(current_capital),
                             Decimal64(MaxAllocationPerTradePercent)),
                       Decimal64(ask_price)))

\* lines 128-160: the opening trade on the prediction signal
HybridOpen(market_data_point, current_capital) ==
    LET minute == market_data_point.MinuteFromStart
        side == GetSignal(market_data_point)
        ask_price == SidePrice(market_data_point, side)
        quantity == OpeningQuantity(current_capital, ask_price)
    IN IF market_data_point.UpMidDelta = NaN THEN NoneDecision
       ELSE IF ~(MinMinute <= minute /\ minute <= MaxMinute)
       THEN NoneDecision
       ELSE IF ~market_data_point.SharpEvent THEN NoneDecision
       ELSE IF side = "None" THEN NoneDecision
       ELSE IF ask_price <= 0 \/ ask_price >= One THEN NoneDecision
       ELSE IF quantity = 0 THEN NoneDecision
       ELSE IF ~WithinCapital(quantity, ask_price, current_capital,
                              Decimal64(current_capital))
       THEN NoneDecision
       ELSE TupleDecision(<<side, quantity, ask_price>>)

\* lines 176-215: the trade of the safe quantity, or else of the forced one
\* when the stop-loss is triggered
HybridHedge(target_side, target_price, safe, triggered, forced) ==
    IF safe > 0 THEN TupleDecision(<<target_side, safe, target_price>>)
    ELSE IF triggered /\ forced > 0
    THEN TupleDecision(<<target_side, forced, target_price>>)
    ELSE NoneDecision

\* lines 162-215: the rebalancing of an unbalanced position
HybridRebalance(portfolio, market_data_point, current_capital) ==
    LET quantity_delta == Abs(portfolio.qty_yes - portfolio.qty_no)
        target_side ==
            IF portfolio.qty_yes > portfolio.qty_no THEN "Down" ELSE "Up"
        target_price == SidePrice(market_data_point, target_side)
    IN IF quantity_delta < MinBalanceQty THEN NoneDecision
       ELSE IF target_price <= 0 THEN NoneDecision
       ELSE HybridHedge(target_side, target_price,
                SafeRebalanceQuantity(portfolio, market_data_point,
                    target_side, target_price, current_capital),
                StopLossTriggered(portfolio, target_side, target_price),
                StopLossQuantity(portfolio, market_data_point,
                    target_side, target_price, current_capital))

\* (variant: the signal opens a trade whenever the two sides are level)
OpensPosition_WhenLevel(portfolio) == portfolio.qty_yes = portfolio.qty_no

\* line 128: nothing is held in the market
OpensPosition(portfolio) == portfolio.qty_yes = 0 /\ portfolio.qty_no = 0

\* HybridStrategy.decide (lines 122-216) on the portfolio of the quote's
\* market
HybridDecide(portfolio, market_data_point, current_capital) ==
    IF OpensPosition(portfolio)
    THEN HybridOpen(market_data_point, current_capital)
    ELSE IF portfolio.qty_yes # portfolio.qty_no
    THEN HybridRebalance(portfolio, market_data_point, current_capital)
    ELSE NoneDecision

\* a HybridStrategy just constructed, no Backtester run under way
InitHybrid ==
    /\ initial_capital \in InitialCapitals
    /\ slippage_seconds = 0
    /\ capital = initial_capital
    /\ transactions = <<>>
    /\ open_positions = <<>>
    /\ market_data = <<>>
    /\ market_history = EmptyDict
    /\ pending_market_summaries = EmptyDict
    /\ transactions_by_market = EmptyDict
    /\ portfolio_history = <<>>
    /\ risk_events = <<>>
    /\ pc = "constructed"
    /\ grp = 0
    /\ rowi = 0
    /\ current_timestamp = 0
    /\ trade_decision = NoneDecision
    /\ decide_calls = <<>>
    /\ portfolio_calls = <<>>
    /\ market_states = EmptyDict
    /\ optimized_portfolio = EmptyDict
    /\ delta_case = NoDeltaCase
    /\ delta_passes = <<>>
    /\ hybrid_portfolio = EmptyDict
    /\ hybrid_call = NoHybridCall
    /\ input_file = <<>>
    /\ report = NoReport

\* strategy.update_portfolio(market_id, side, quantity, price) of the
\* HybridStrategy (lines 218-226, the code of RebalancingStrategy), called
\* on the strategy directly as the tests do
HybridUpdatePortfolio ==
    /\ hybrid_call.none
    /\ Len(portfolio_calls) < MaxUpdates
    /\ \E side \in Sides, quantity \in HybridHeldQuantities,
          price \in HybridHeldPrices :
          /\ hybrid_portfolio' =
                UpdatePortfolio(hybrid_portfolio, HybridMarket, side,
                                quantity, price)
          /\ portfolio_calls' = Append(portfolio_calls,
                [market_id |-> HybridMarket, side |-> side,
                 quantity |-> quantity, price |-> price])
    /\ UNCHANGED <<backtester_vars, optimized_vars, market_states, delta_case,
                   delta_passes, hybrid_call, scenario_vars>>

\* strategy.decide(market_data_point, current_capital), called directly;
\* _get_or_init_portfolio (line 124) enters the market in portfolio_state
HybridDecideCalled ==
    /\ hybrid_call.none
    /\ \E market_data_point \in HybridQuotes,
          current_capital \in HybridCapitals :
          LET portfolio == PortfolioOf(hybrid_portfolio,
                                       MarketOf(market_data_point))
          IN /\ hybrid_call' =
                    [none |-> FALSE,
                     market_data_point |-> market_data_point,
                     current_capital |-> current_capital,
                     decision |-> HybridDecide(portfolio, market_data_point,
                                               current_capital)]
             /\ hybrid_portfolio' =
                    [m \in DOMAIN hybrid_portfolio
                             \cup {MarketOf(market_data_point)} |->
                        PortfolioOf(hybrid_portfolio, m)]
    /\ UNCHANGED <<backtester_vars, optimized_vars, market_states, delta_case,
                   delta_passes, portfolio_calls, scenario_vars>>

NextHybrid ==
    \/ HybridUpdatePortfolio
    \/ HybridDecideCalled

SpecHybrid == InitHybrid /\ [][NextHybrid]_vars

\* ------------------------------------------ a run with RebalancingStrategy
\* RebalancingStrategy.__init__ (lines 7-9), as backtester.py runs it
SafetyMarginM == 99
MaxTradeSize == 500

\* the quotes of these runs carry the liquidity columns the strategy reads
RebalancingAskPairs == {<<55, 40>>, <<40, 55>>, <<48, 48>>}
RebalancingLiquidities == {1500}

RebalancingRow(t, m, a, liquidity) ==
    [Timestamp |-> t, TargetTime |-> m[1], Expiration |-> m[2],
     UpAsk |-> a[1], DownAsk |-> a[2],
     UpAskLiquidity |-> liquidity, DownAskLiquidity |-> liquidity]

RebalancingRows ==
    {RebalancingRow(t, m, a, liquidity) :
        t \in 1..MaxTime, m \in Markets, a \in RebalancingAskPairs,
        liquidity \in RebalancingLiquidities}

RebalancingFiles == UNION {[1..n -> RebalancingRows] : n \in 1..MaxRows}

\* check_safety_margin (lines 85-111): the average of the side bought after
\* the trade plus the average of the other side is below SAFETY_MARGIN_M.
\* The two averages are the fractions num_yes / den_yes and num_no / den_no
CheckSafetyMargin(portfolio, target_side, qty_to_buy, price) ==
    LET buys_yes == target_side = "Up"
        buys_no == target_side = "Down"
        num_yes == IF buys_yes THEN portfolio.cost_yes + qty_to_buy * price
                   ELSE IF portfolio.qty_yes > 0 THEN portfolio.cost_yes
                   ELSE 0
        den_yes == IF buys_yes THEN portfolio.qty_yes + qty_to_buy
                   ELSE IF portfolio.qty_yes > 0 THEN portfolio.qty_yes
                   ELSE 1
        num_no == IF buys_no THEN portfolio.cost_no + qty_to_buy * price
                  ELSE IF portfolio.qty_no > 0 THEN portfolio.cost_no
                  ELSE 0
        den_no == IF buys_no THEN portfolio.qty_no + qty_to_buy
                  ELSE IF portfolio.qty_no > 0 THEN portfolio.qty_no
                  ELSE 1
        sign == IF den_yes * den_no < 0 THEN -1 ELSE 1
    IN IF ~buys_yes /\ ~buys_no THEN FALSE
       ELSE IF den_yes = 0 \/ den_no = 0 THEN FALSE
       ELSE CompareAmounts(
                sign * (num_yes * den_no + num_no * den_yes),
                sign * SafetyMarginM * den_yes * den_no,
                Add64(BoughtAverage64(portfolio.cost_yes64, portfolio.qty_yes,
                                      buys_yes, qty_to_buy, price),
                      BoughtAverage64(portfolio.cost_no64, portfolio.qty_no,
                                      buys_no, qty_to_buy, price)),
                Decimal64(SafetyMarginM)) < 0

\* line 131: price_yes + price_no < SAFETY_MARGIN_M
PairBelowMargin(price_yes, price_no) ==
    CompareAmounts(price_yes + price_no, SafetyMarginM,
                   Add64(Decimal64(price_yes), Decimal64(price_no)),
                   Decimal64(SafetyMarginM)) < 0

\* the tests of the loops at lines 136-159 and 187-205 on one quantity
\* (check_liquidity_constraint, lines 55-69, is the code of the
\* HybridStrategy); cash64 is the float of current_capital
RebalancingPasses(portfolio, row, side, price, cash, cash64, quantity) ==
    /\ WithinCapital(quantity, price, cash, Value64(cash64))
    /\ CheckDeltaConstraint(portfolio, side, quantity)
    /\ CheckLiquidityConstraint(row, side, quantity)
    /\ CheckSafetyMargin(portfolio, side, quantity, price)

\* lines 121-161: a balanced portfolio buys the dearer side when a pair
\* costs less than the safety margin
RebalancingIncrease(portfolio, market_data_point, cash, cash64) ==
    LET price_yes == market_data_point.UpAsk
        price_no == market_data_point.DownAsk
        side_to_buy == IF price_yes > price_no THEN "Up" ELSE "Down"
        price_to_buy == IF side_to_buy = "Up" THEN price_yes ELSE price_no
        quantity ==
            LargestPassing(
                {q \in 1..(MaxTradeSize - portfolio.qty_yes) :
                    RebalancingPasses(portfolio, market_data_point,
                        side_to_buy, price_to_buy, cash, cash64, q)})
    IN IF portfolio.qty_yes >= MaxTradeSize THEN NoneDecision
       ELSE IF price_yes > 0 /\ price_no > 0
               /\ PairBelowMargin(price_yes, price_no)
       THEN IF quantity > 0
            THEN TupleDecision(<<side_to_buy, quantity, price_to_buy, One>>)
            ELSE NoneDecision
       ELSE NoneDecision

\* lines 163-207: an unbalanced portfolio buys the lighter side
RebalancingEqualize(portfolio, market_data_point, cash, cash64) ==
    LET quantity_delta == Abs(portfolio.qty_yes - portfolio.qty_no)
        target_side ==
            IF portfolio.qty_yes > portfolio.qty_no THEN "Down" ELSE "Up"
        target_price == SidePrice(market_data_point, target_side)
        start == IF quantity_delta < MaxTradeSize THEN quantity_delta
                 ELSE MaxTradeSize
        quantity ==
            LargestPassing(
                {q \in 1..start :
                    RebalancingPasses(portfolio, market_data_point,
                        target_side, target_price, cash, cash64, q)})
    IN IF quantity_delta < MinBalanceQty THEN NoneDecision
       ELSE IF target_price <= 0 THEN NoneDecision
       ELSE IF quantity > 0
       THEN TupleDecision(<<target_side, quantity, target_price, One>>)
       ELSE NoneDecision

\* RebalancingStrategy.decide (lines 113-207) on the portfolio of the
\* quote's market, called with current_capital cash, the float cash64
RebalancingDecide(portfolio, market_data_point, cash, cash64) ==
    IF portfolio.qty_yes = portfolio.qty_no
    THEN RebalancingIncrease(portfolio, market_data_point, cash, cash64)
    ELSE RebalancingEqualize(portfolio, market_data_point, cash, cash64)

\* one iteration of the while loops of lines 136-159 and 187-205: TRUE when
\* it returns the trade, FALSE when it decrements qty_to_try and goes on
RebalancingIteration(portfolio, row, side, price, cash, cash64, qty_to_try) ==
    IF ~WithinCapital(qty_to_try, price, cash, Value64(cash64)) THEN FALSE
    ELSE IF ~CheckDeltaConstraint(portfolio, side, qty_to_try) THEN FALSE
    ELSE IF ~CheckLiquidityConstraint(row, side, qty_to_try) THEN FALSE
    ELSE CheckSafetyMargin(portfolio, side, qty_to_try, price)

\* the iterations of the loop for qty_to_try = hi, hi - 1, ..., lo in that
\* order: the quantity of the first that returns, or 0 when the loop runs
\* through them all.  found[range] is that quantity for the iterations from
\* range[2] down to range[1]: those of the upper half of the range come
\* first, and those of the lower half follow when none of them returned
RebalancingSearch(portfolio, row, side, price, cash, cash64, lo, hi) ==
    LET found[range \in (lo..hi) \X (lo..hi)] ==
            IF range[1] > range[2] THEN 0
            ELSE IF range[1] = range[2]
            THEN IF RebalancingIteration(portfolio, row, side, price, cash,
                                         cash64, range[2])
                 THEN range[2] ELSE 0
            ELSE LET mid == (range[1] + range[2]) \div 2
                     first[upper \in 0..hi] ==
                         IF upper > 0 THEN upper ELSE found[<<range[1], mid>>]
                 IN first[found[<<mid + 1, range[2]>>]]
    IN IF lo > hi THEN 0 ELSE found[<<lo, hi>>]

\* lines 133 and 185: the quantity the search starts from, 0 where decide
\* returns before searching (lines 123-124, 131, 166-167, 182-183)
RebalancingMaximum(portfolio, market_data_point) ==
    LET quantity_delta == Abs(portfolio.qty_yes - portfolio.qty_no)
        target_side ==
            IF portfolio.qty_yes > portfolio.qty_no THEN "Down" ELSE "Up"
    IN IF portfolio.qty_yes = portfolio.qty_no
       THEN IF /\ portfolio.qty_yes < MaxTradeSize
               /\ market_data_point.UpAsk > 0
               /\ market_data_point.DownAsk > 0
               /\ PairBelowMargin(market_data_point.UpAsk,
                                  market_data_point.DownAsk)
            THEN MaxTradeSize - portfolio.qty_yes
            ELSE 0
       ELSE IF quantity_delta < MinBalanceQty THEN 0
       ELSE IF SidePrice(market_data_point, target_side) <= 0 THEN 0
       ELSE IF quantity_delta < MaxTradeSize THEN quantity_delta
       ELSE MaxTradeSize

\* lines 138-139 and 174-179: the side the search buys and its ask
RebalancingSide(portfolio, market_data_point) ==
    IF portfolio.qty_yes = portfolio.qty_no
    THEN IF market_data_point.UpAsk > market_data_point.DownAsk
         THEN "Up" ELSE "Down"
    ELSE IF portfolio.qty_yes > portfolio.qty_no THEN "Down" ELSE "Up"

\* load_data on a file with the liquidity columns
LoadRebalancingData ==
    /\ pc = "constructed"
    /\ \E file \in RebalancingFiles :
          /\ market_data' \in SortOutcomes(file)
          /\ market_history' = GroupByMarket(market_data')
    /\ pc' = "loaded"
    /\ UNCHANGED <<strategy_vars, scenario_vars,
                   initial_capital, slippage_seconds, capital, transactions,
                   open_positions, pending_market_summaries,
                   transactions_by_market, portfolio_history, risk_events,
                   grp, rowi, current_timestamp, trade_decision,
                   decide_calls, portfolio_calls>>

\* run_strategy lines 295-328 for one quote, with the strategy's decide at
\* line 297 on the portfolio its update_portfolio (line 309) has built
RebalancingQuote ==
    /\ pc = "quotes"
    /\ \E d \in {RebalancingDecide(
                    PortfolioOf(PortfolioStateAfter(portfolio_calls),
                                MarketOf(CurrentRow)),
                    CurrentRow, capital,
                    RunningCapital(initial_capital, transactions))} :
       LET m == MarketOf(CurrentRow)
       IN /\ DecideCalled(d)
          /\ IF ~Truthy(d) \/ QuoteExpired(current_timestamp, CurrentRow)
             THEN UNCHANGED <<capital, portfolio_calls, open_positions,
                              transactions, transactions_by_market,
                              risk_events>>
             ELSE
               LET side == d.items[1]
                   quantity == d.items[2]
                   entry_price == ExecutedPrice(d)
                   cost == Cost(quantity, entry_price)
                   trade_log_entry ==
                       [Timestamp |-> current_timestamp, Type |-> "Buy",
                        MarketID |-> m, Side |-> side, Quantity |-> quantity,
                        EntryPrice |-> entry_price, Value |-> cost,
                        PnL |-> -cost]
               IN IF Affordable(capital, cost, Capital64,
                                Cost64(quantity, entry_price))
                  THEN /\ capital' = capital - cost
                       /\ portfolio_calls' = Append(portfolio_calls,
                             [market_id |-> m, side |-> side,
                              quantity |-> quantity, price |-> entry_price])
                       /\ open_positions' = Append(open_positions,
                             [market_id |-> m, side |-> side,
                              quantity |-> quantity,
                              entry_price |-> entry_price,
                              expiration |-> CurrentRow.Expiration])
                       /\ transactions' = Append(transactions, trade_log_entry)
                       /\ transactions_by_market' =
                             AppendAt(transactions_by_market, m,
                                      trade_log_entry)
                       /\ UNCHANGED risk_events
                  ELSE /\ risk_events' = Append(risk_events,
                             [timestamp |-> current_timestamp,
                              event |-> "Insufficient Capital",
                              details |-> [needed |-> cost, had |-> capital]])
                       /\ UNCHANGED <<capital, portfolio_calls,
                                      open_positions, transactions,
                                      transactions_by_market>>
    /\ Advance
    /\ UNCHANGED <<strategy_vars, scenario_vars,
                   initial_capital, slippage_seconds, market_data,
                   market_history, pending_market_summaries,
                   portfolio_history, current_timestamp>>

NextRebalancing ==
    \/ LoadRebalancingData
    \/ BeginRun
    \/ ResolveExpired
    \/ RebalancingQuote
    \/ FinalResolve

SpecRebalancing == Init /\ [][NextRebalancing]_vars

\* ====================================================== checked properties
\* sums over a transaction log
RECURSIVE BuyValueSum(_)
BuyValueSum(txs) ==
    IF txs = <<>> THEN 0
    ELSE BuyValueSum(SubSeq(txs, 1, Len(txs) - 1))
         + (IF Last(txs).Type = "Buy" THEN Last(txs).Value ELSE 0)

IsWin(tx) == tx.Type = "Resolution" /\ tx.Side = tx.WinningSide
IsLoss(tx) == tx.Type = "Resolution" /\ tx.Side # tx.WinningSide

RECURSIVE WinQuantitySum(_)
WinQuantitySum(txs) ==
    IF txs = <<>> THEN 0
    ELSE WinQuantitySum(SubSeq(txs, 1, Len(txs) - 1))
         + (IF IsWin(Last(txs)) THEN Last(txs).Quantity ELSE 0)

Prefix(txs, k) == SubSeq(txs, 1, k)

\* initial capital less the buys plus one dollar per winning share
Conserved(txs) == initial_capital - BuyValueSum(txs) + One * WinQuantitySum(txs)

TxIndices == 1..Len(transactions)

\* C1: when run_strategy has finished, capital equals initial_capital minus
\* the Value of every Buy plus the Quantity (at 1.0 a share) of every
\* Resolution whose Side is its WinningSide.
ThmC1_CapitalConservation ==
    pc = "done" => capital = Conserved(transactions)

\* a finished run with a winning and a losing resolution
WitC1_WonAndLost ==
    /\ pc = "done"
    /\ \E i \in TxIndices : IsWin(transactions[i])
    /\ \E i \in TxIndices : IsLoss(transactions[i])

\* a step that appends a Buy to the log
BuyStep ==
    /\ Len(transactions') = Len(transactions) + 1
    /\ Last(transactions').Type = "Buy"

\* C2: capital is never negative, and whenever capital is debited, a position
\* opened, a Buy logged or update_portfolio called, the state before that step
\* had capital >= quantity * executed price (the check precedes the changes).
ThmC2_CapitalNeverNegative ==
    [][/\ capital >= 0
       /\ capital' >= 0
       /\ (\/ capital' < capital
           \/ Len(open_positions') > Len(open_positions)
           \/ BuyStep
           \/ portfolio_calls' # portfolio_calls)
          => /\ BuyStep
             /\ LET buy == Last(transactions')
                IN /\ buy.Value = buy.Quantity * buy.EntryPrice
                   /\ capital >= buy.Value
                   /\ capital' = capital - buy.Value]_vars

\* a trade took capital to exactly 0 and a later one was refused
WitC2_SpentToZero ==
    /\ capital = 0
    /\ \E i \in TxIndices : transactions[i].Type = "Buy"
    /\ risk_events # <<>>

\* the log entries of market m that are of type ty
CountIn(txs, ty, m) ==
    Cardinality({i \in 1..Len(txs) : txs[i].Type = ty /\ txs[i].MarketID = m})

\* C3: when decide is called for a quote of timestamp t, no open position has
\* expiration <= t: every Buy of a market expired by t already has its
\* Resolution in the log, and the capital passed to decide includes the
\* payouts of those resolutions.
ThmC3_ResolveBeforeDecide ==
    /\ pc = "quotes" =>
          \A k \in 1..Len(open_positions) :
              open_positions[k].expiration > current_timestamp
    /\ \A c \in 1..Len(decide_calls) :
          LET call == decide_calls[c]
              seen == Prefix(transactions, call.logged)
          IN /\ \A m \in Markets :
                    m[2] <= call.row.Timestamp =>
                        CountIn(seen, "Resolution", m) = CountIn(seen, "Buy", m)
             /\ call.capital = Conserved(seen)

\* decide was called at a timestamp at which a winning position had just
\* been resolved
WitC3_PayoutBeforeDecide ==
    \E c \in 1..Len(decide_calls) :
        \E i \in 1..decide_calls[c].logged :
            /\ IsWin(transactions[i])
            /\ transactions[i].Timestamp = decide_calls[c].row.Timestamp
            /\ transactions[i].MarketID[2] = decide_calls[c].row.Timestamp

\* C4: for a quote with Timestamp >= Expiration, whatever decide returns, the
\* step that handles it leaves capital, the positions, the log, the risk
\* events and the update_portfolio calls unchanged.
ThmC4_NoTradeAtOrAfterExpiration ==
    [][(pc = "quotes" /\ CurrentRow.Timestamp >= CurrentRow.Expiration)
          => UNCHANGED <<capital, open_positions, transactions,
                         transactions_by_market, risk_events,
                         portfolio_calls>>]_vars

\* a decision to trade was returned for a quote at its expiration exactly
WitC4_DecisionAtExpiration ==
    /\ Truthy(trade_decision)
    /\ decide_calls # <<>>
    /\ Last(decide_calls).row.Timestamp = Last(decide_calls).row.Expiration
    /\ pc \in {"quotes", "resolve", "final"}

\* the price at which the decision d for the current quote executes
DecidedTrade(d) == Truthy(d) /\ Unpackable(d)

\* quantity * executed price of the decision d against self.capital, the
\* two floats of line 306: 1, 0 or -1 as the cost is above, equal to or
\* below capital
CostAgainstCapital(d) ==
    CompareAmounts(d.items[2] * ExecutedPrice(d), capital,
                   Cost64(d.items[2], ExecutedPrice(d)), Capital64)

\* self.capital after 5.00 - 10 * 0.48 + 10 - 10 * 0.50
SpentAndWon ==
    RunningFloat(500, <<<<-1, 10, 48>>, <<1, 10, One>>, <<-1, 10, 50>>>>)

\* line 306 on amounts equal in hundredths
AffordableWhereFloatsDecide ==
    /\ Affordable(500, Cost(10, 50), Decimal64(500), Cost64(10, 50))
    /\ Cmp64(Cost64(10, 7), Decimal64(70)) > 0
    /\ ~Affordable(70, Cost(10, 7), Decimal64(70), Cost64(10, 7))
    /\ Cmp64(Value64(SpentAndWon), Decimal64(520)) < 0
    /\ ~Affordable(520, Cost(10, 52), Value64(SpentAndWon), Cost64(10, 52))

\* C5: a decided trade on an unexpired quote whose cost exceeds capital
\* changes nothing but the risk events, which gain exactly one 'Insufficient
\* Capital' event, and the run goes on; a cost equal to capital is accepted.
\* Cost and capital are the floats the code compares: 10 * 0.50 equals 5.00
\* and is accepted, while 10 * 0.07 exceeds 0.70, and 10 * 0.52 exceeds the
\* capital left of 5.00 by a purchase of 4.80, a payout of 10 and a purchase
\* of 5.00, and both are refused.
ThmC5_InsufficientCapital ==
    [][/\ (/\ pc = "quotes"
           /\ CurrentRow.Timestamp < CurrentRow.Expiration
           /\ DecidedTrade(trade_decision'))
          => \E against \in {CostAgainstCapital(trade_decision')} :
                /\ against > 0 =>
                      /\ UNCHANGED <<capital, open_positions, transactions,
                                     transactions_by_market, portfolio_calls>>
                      /\ Len(risk_events') = Len(risk_events) + 1
                      /\ SubSeq(risk_events', 1, Len(risk_events)) = risk_events
                      /\ Last(risk_events').event = "Insufficient Capital"
                      /\ pc' \in {"quotes", "resolve", "final"}
                /\ against = 0 =>
                      /\ BuyStep
                      /\ capital' = 0
                      /\ UNCHANGED risk_events
       /\ (pc = "constructed" /\ pc' = "not_found")
             => AffordableWhereFloatsDecide]_vars

\* a finished run in which a trade costing the whole capital was accepted and
\* a later one was refused, with further quotes handled after the refusal
WitC5_ExactThenRefused ==
    /\ pc = "done"
    /\ Len(risk_events) = 1
    /\ \E i \in TxIndices :
          /\ transactions[i].Type = "Buy"
          /\ transactions[i].Value = initial_capital
          /\ transactions[i].Timestamp <= risk_events[1].timestamp
    /\ risk_events[1].details.needed > risk_events[1].details.had

\* what identifies the position behind a log entry
Key(tx) == <<tx.MarketID, tx.Side, tx.Quantity, tx.EntryPrice>>

CountKey(txs, ty, key) ==
    Cardinality({i \in 1..Len(txs) : txs[i].Type = ty /\ Key(txs[i]) = key})

\* C6: when run_strategy has finished no position is open, and for every
\* (market, side, quantity, entry price) the log holds as many Resolutions as
\* Buys, and in every prefix of the log no more Resolutions than Buys: each Buy
\* has its own Resolution later in the log, and no Resolution is without one.
ThmC6_ResolvedExactlyOnce ==
    pc = "done" =>
        /\ open_positions = <<>>
        /\ \A i \in TxIndices :
              LET key == Key(transactions[i])
              IN /\ CountKey(transactions, "Resolution", key)
                      = CountKey(transactions, "Buy", key)
                 /\ \A k \in 0..Len(transactions) :
                       CountKey(Prefix(transactions, k), "Resolution", key)
                          <= CountKey(Prefix(transactions, k), "Buy", key)

\* a finished run with one position resolved at its expiration inside the
\* loop and another force-resolved before its expiration
WitC6_LoopAndForced ==
    /\ pc = "done"
    /\ \E i \in TxIndices :
          /\ transactions[i].Type = "Resolution"
          /\ transactions[i].Timestamp >= transactions[i].MarketID[2]
    /\ \E i \in TxIndices :
          /\ transactions[i].Type = "Resolution"
          /\ transactions[i].Timestamp < transactions[i].MarketID[2]

\* the winner rule as the claim states it
ClaimedWinner(up_ask, down_ask) ==
    IF up_ask = 0 THEN "Up"
    ELSE IF down_ask = 0 THEN "Down"
    ELSE IF down_ask > up_ask THEN "Down"
    ELSE "Up"

\* the last loaded quote of market m
FinalQuote(m) ==
    LET last == CHOOSE i \in 1..Len(market_data) :
                   /\ MarketOf(market_data[i]) = m
                   /\ \A j \in (i + 1)..Len(market_data) :
                         MarketOf(market_data[j]) # m
    IN market_data[last]

\* C7: the WinningSide of every Resolution is the claimed rule applied to the
\* asks of the last quote of its market (ties and two zero asks give Up), and
\* determine_winner of prediction_backtester gives the same winner.
ThmC7_WinnerRule ==
    /\ \A i \in TxIndices :
          transactions[i].Type = "Resolution" =>
              LET q == FinalQuote(transactions[i].MarketID)
              IN transactions[i].WinningSide = ClaimedWinner(q.UpAsk, q.DownAsk)
    /\ \A m \in DOMAIN market_history :
          DetermineWinner(market_history[m])
              = ClaimedWinner(FinalQuote(m).UpAsk, FinalQuote(m).DownAsk)

\* a position was resolved in a market whose last quote has equal non-zero
\* asks, and Up won
WitC7_TieGoesUp ==
    \E i \in TxIndices :
        /\ transactions[i].Type = "Resolution"
        /\ LET q == FinalQuote(transactions[i].MarketID)
           IN q.UpAsk = q.DownAsk /\ q.UpAsk # 0
        /\ transactions[i].WinningSide = "Up"

\* C8: a resolving step adds to capital exactly the quantity (at 1.0 a share)
\* of each position whose side won and nothing for the others, and logs
\* PnL = quantity * (1 - entry_price) for a winner and
\* -(quantity * entry_price) for a loser.
ThmC8_ResolutionAccounting ==
    [][(pc \in {"resolve", "final"}) =>
          LET new == SubSeq(transactions', Len(transactions) + 1,
                            Len(transactions'))
          IN /\ capital' = capital + One * WinQuantitySum(new)
             /\ \A i \in 1..Len(new) :
                   /\ new[i].Type = "Resolution"
                   /\ new[i].PnL =
                         IF new[i].Side = new[i].WinningSide
                         THEN new[i].Quantity * (One - new[i].EntryPrice)
                         ELSE -(new[i].Quantity * new[i].EntryPrice)]_vars

\* one market resolved with a winning and a losing position
WitC8_WinAndLossBooked ==
    \E i, j \in TxIndices :
        /\ IsWin(transactions[i]) /\ transactions[i].PnL > 0
        /\ IsLoss(transactions[j]) /\ transactions[j].PnL < 0
        /\ transactions[i].MarketID = transactions[j].MarketID

\* the run of Scenario D: capital 100, one trade, a Down position of 10
\* shares at 0.52
ScenarioD ==
    /\ pc = "done"
    /\ initial_capital = 10000
    /\ Cardinality({i \in TxIndices : transactions[i].Type = "Buy"}) = 1
    /\ \E i \in TxIndices :
          /\ transactions[i].Type = "Buy"
          /\ transactions[i].Side = "Down"
          /\ transactions[i].Quantity = 10
          /\ transactions[i].EntryPrice = 52

\* the last quote of the market traded in Scenario D
ScenarioQuote ==
    LET buy == CHOOSE i \in TxIndices : transactions[i].Type = "Buy"
    IN FinalQuote(transactions[buy].MarketID)

\* C9 as stated: the Down position wins whenever the last quote has
\* DownAsk = 0 or DownAsk > UpAsk, and capital ends at 100 - 5.2 + 10 = 104.8
CexC9_DownWinsAsStated ==
    (/\ ScenarioD
     /\ \/ ScenarioQuote.DownAsk = 0
        \/ ScenarioQuote.DownAsk > ScenarioQuote.UpAsk)
        => capital = 10480

\* C9 (amended): the Down position wins whenever the last quote of its market
\* has UpAsk # 0 and (DownAsk = 0 or DownAsk > UpAsk); capital then ends at
\* 100 - 5.2 + 10 = 104.8.
ThmC9_DownWins ==
    (/\ ScenarioD
     /\ ScenarioQuote.UpAsk # 0
     /\ \/ ScenarioQuote.DownAsk = 0
        \/ ScenarioQuote.DownAsk > ScenarioQuote.UpAsk)
        => capital = 10480

\* Scenario D ended at 104.8 on a last quote with 0 < UpAsk < DownAsk
WitC9_DownWon ==
    /\ ScenarioD
    /\ ScenarioQuote.UpAsk # 0
    /\ ScenarioQuote.DownAsk > ScenarioQuote.UpAsk
    /\ capital = 10480

\* C10: with slippage_seconds <= 0 the slippage model returns the decided
\* price for every decision on the current quote, and a Buy is logged, and its
\* position opened, at the price the strategy decided.
ThmC10_SlippageIdempotence ==
    [][(slippage_seconds <= 0 /\ pc = "quotes") =>
          /\ \A d \in Decisions :
                DecidedTrade(d) => ExecutedPrice(d) = d.items[3]
          /\ (BuyStep =>
                (/\ Last(transactions').EntryPrice = trade_decision'.items[3]
                 /\ Last(transactions').Side = trade_decision'.items[1]
                 /\ Last(open_positions').entry_price
                       = trade_decision'.items[3]))]_vars

\* with slippage off, a Buy went through at the decided price although a later
\* quote of its market carries another positive ask for that side
WitC10_LaterQuoteIgnored ==
    /\ slippage_seconds <= 0
    /\ \E i \in TxIndices :
          /\ transactions[i].Type = "Buy"
          /\ transactions[i].EntryPrice \in {50, 52}
          /\ \E r \in 1..Len(market_data) :
                /\ MarketOf(market_data[r]) = transactions[i].MarketID
                /\ market_data[r].Timestamp > transactions[i].Timestamp
                /\ SidePrice(market_data[r], transactions[i].Side) > 0
                /\ SidePrice(market_data[r], transactions[i].Side)
                      # transactions[i].EntryPrice

\* the rows of market m at or after time t, by position in the loaded data
LaterQuotes(m, t) ==
    {r \in 1..Len(market_data) :
        MarketOf(market_data[r]) = m /\ market_data[r].Timestamp >= t}

\* the first of them in the order of the loaded data
FirstLaterQuote(m, t) ==
    market_data[CHOOSE r \in LaterQuotes(m, t) :
                    \A q \in LaterQuotes(m, t) : r <= q]

\* the delayed quote gives a price for the side: it exists and its ask is > 0
DelayedPriceKnown(m, t, side) ==
    /\ LaterQuotes(m, t) # {}
    /\ SidePrice(FirstLaterQuote(m, t), side) > 0

\* C11: with slippage_seconds > 0, every Buy logged at timestamp t carries as
\* EntryPrice (and in its Value) the ask of its side in the first quote of its
\* own market with Timestamp >= t + slippage_seconds, never the ask of a
\* later quote of the market or of a quote of another market, whenever that
\* quote exists and that ask is > 0.
ThmC11_SlippagePrice ==
    slippage_seconds > 0 =>
        \A i \in TxIndices :
            LET tx == transactions[i]
                t == tx.Timestamp + slippage_seconds
            IN (tx.Type = "Buy" /\ DelayedPriceKnown(tx.MarketID, t, tx.Side))
                  => /\ tx.EntryPrice
                          = SidePrice(FirstLaterQuote(tx.MarketID, t), tx.Side)
                     /\ tx.Value = tx.Quantity * tx.EntryPrice

\* a Buy decided at 0.50 or 0.52 went through at the ask of the first of two
\* later quotes of its market, which ask another price than the second of
\* them and than the quote of the other market that lies at the delayed
\* timestamp, before both
WitC11_BoughtAtFirstOfTwoLaterAsks ==
    /\ slippage_seconds > 0
    /\ \E i \in TxIndices :
          LET tx == transactions[i]
              t == tx.Timestamp + slippage_seconds
              first == FirstLaterQuote(tx.MarketID, t)
          IN /\ tx.Type = "Buy"
             /\ DelayedPriceKnown(tx.MarketID, t, tx.Side)
             /\ tx.EntryPrice = SidePrice(first, tx.Side)
             /\ \A tr \in Trades : tr[3] # tx.EntryPrice
             /\ \E q \in LaterQuotes(tx.MarketID, t) :
                   /\ market_data[q].Timestamp > first.Timestamp
                   /\ SidePrice(market_data[q], tx.Side) > 0
                   /\ SidePrice(market_data[q], tx.Side) # tx.EntryPrice
             /\ \E r \in 1..Len(market_data) :
                   /\ MarketOf(market_data[r]) # tx.MarketID
                   /\ market_data[r].Timestamp = t
                   /\ market_data[r].Timestamp < first.Timestamp
                   /\ SidePrice(market_data[r], tx.Side) > 0
                   /\ SidePrice(market_data[r], tx.Side) # tx.EntryPrice

\* C12: with slippage_seconds > 0, a decided trade on an unexpired quote whose
\* market has no quote at or after t + slippage_seconds, or whose first such
\* quote has an ask of 0 for the side, executes at the decided price: nothing
\* is raised, and the trade is accepted when capital covers it.
ThmC12_SlippageFallback ==
    [][(/\ slippage_seconds > 0
        /\ pc = "quotes"
        /\ CurrentRow.Timestamp < CurrentRow.Expiration
        /\ DecidedTrade(trade_decision')
        /\ ~DelayedPriceKnown(MarketOf(CurrentRow),
                              current_timestamp + slippage_seconds,
                              trade_decision'.items[1]))
          => LET d == trade_decision'
             IN /\ ExecutedPrice(d) = d.items[3]
                /\ pc' # "raised"
                /\ CostAgainstCapital(d) <= 0 =>
                      (/\ BuyStep
                       /\ Last(transactions').EntryPrice = d.items[3]
                       /\ capital' = capital - d.items[2] * d.items[3])]_vars

\* with slippage on, a Buy went through at the decided price because the
\* delayed quote of its market asks 0 for its side, and another because its
\* market has no later quote while another market has one
WitC12_FellBackToDecided ==
    /\ slippage_seconds > 0
    /\ \E i \in TxIndices :
          LET tx == transactions[i]
              t == tx.Timestamp + slippage_seconds
          IN /\ tx.Type = "Buy"
             /\ tx.EntryPrice \in {50, 52}
             /\ \/ /\ LaterQuotes(tx.MarketID, t) # {}
                   /\ SidePrice(FirstLaterQuote(tx.MarketID, t), tx.Side) = 0
                \/ /\ LaterQuotes(tx.MarketID, t) = {}
                   /\ \E r \in 1..Len(market_data) :
                         /\ market_data[r].Timestamp >= t
                         /\ SidePrice(market_data[r], tx.Side) > 0

\* C13: decide is called on the loaded rows in their sorted order, one call a
\* row, and the timestamps of the calls never decrease: the rows of one
\* timestamp are visited together, each timestamp once, in ascending order,
\* whatever the order of the rows in the file.
ThmC13_AscendingSinglePass ==
    /\ Len(decide_calls) <= Len(market_data)
    /\ \A i \in 1..Len(decide_calls) :
          /\ decide_calls[i].row = market_data[i]
          /\ \A j \in 1..(i - 1) :
                decide_calls[j].row.Timestamp <= decide_calls[i].row.Timestamp
    /\ (pc \in {"resolve", "quotes", "final"}) =>
          \A g \in 1..(Len(Keys) - 1) : Keys[g] < Keys[g + 1]
    /\ pc = "quotes" => current_timestamp = CurrentRow.Timestamp
    /\ pc = "done" => Len(decide_calls) = Len(market_data)

\* a finished run over two timestamps whose file had the later row first
WitC13_UnsortedFileVisitedInOrder ==
    /\ pc = "done"
    /\ Len(decide_calls) = 2
    /\ decide_calls[1].row.Timestamp < decide_calls[2].row.Timestamp
    /\ \E file \in Files :
          /\ Len(file) = 2
          /\ file[1].Timestamp > file[2].Timestamp
          /\ SortByTimestamp(file) = market_data

\* a decision of the form (side, quantity, price)
ThreeElementDecision(d) == ~d.none /\ Len(d.items) = 3

\* C14 as stated: a decision (side, quantity, price) returned for a quote
\* before its expiration, at a cost capital covers, is executed: capital is
\* debited, update_portfolio called, a Buy logged and a position opened.
CexC14_ThreeElementDecisionExecuted ==
    [][(/\ pc = "quotes"
        /\ CurrentRow.Timestamp < CurrentRow.Expiration
        /\ ThreeElementDecision(trade_decision')
        /\ CostAgainstCapital(trade_decision') <= 0)
          => LET d == trade_decision'
                 cost == Cost(d.items[2], ExecutedPrice(d))
             IN /\ BuyStep
                /\ capital' = capital - cost
                /\ Len(portfolio_calls') = Len(portfolio_calls) + 1
                /\ Len(open_positions') = Len(open_positions) + 1]_vars

\* run_strategy was left by the exception of line 303 on an affordable
\* decision (side, quantity, price) for an unexpired quote, nothing bought
WitC14_ThreeElementDecisionRaised ==
    /\ pc = "raised"
    /\ ThreeElementDecision(trade_decision)
    /\ Last(decide_calls).row.Timestamp < Last(decide_calls).row.Expiration
    /\ Last(decide_calls).capital
          >= Cost(trade_decision.items[2], trade_decision.items[3])
    /\ Len(transactions) = Last(decide_calls).logged

\* an output of decide that line 303 cannot unpack, or that is no trade
Malformed(d) == ~Truthy(d) \/ ~Unpackable(d)

\* C15 as stated: for None, an empty value or a tuple of the wrong shape the
\* step raises nothing, changes no state of the backtest, and the loop goes
\* on to the next quote.
CexC15_MalformedOutputIsNoTrade ==
    [][(pc = "quotes" /\ Malformed(trade_decision'))
          => /\ pc' \in {"quotes", "resolve", "final"}
             /\ UNCHANGED <<capital, open_positions, transactions,
                            transactions_by_market, risk_events,
                            portfolio_calls, portfolio_history>>]_vars

\* a run in which None was a no-trade for one quote and a tuple of the wrong
\* shape raised on the next
WitC15_WrongShapeRaised ==
    /\ pc = "raised"
    /\ Len(decide_calls) = 2
    /\ ~Unpackable(trade_decision)
    /\ decide_calls[1].row.Timestamp < decide_calls[1].row.Expiration
    /\ transactions = <<>>
    /\ risk_events = <<>>

\* the positions the step resolves, by index in open_positions
DueNow ==
    {k \in 1..Len(open_positions) :
        pc = "final" \/ PositionExpired(Keys[grp], open_positions[k])}

\* C16 as stated: a step that resolves positions whose markets have no entry
\* in market_history leaves capital unchanged, removes those positions, files
\* PnL 0 and winning side 'Error' for each, and raises nothing: the run goes
\* on, and the final flush of the summaries completes it.
CexC16_UnresolvableMarketIsNotFatal ==
    [][(/\ pc \in {"resolve", "final"}
        /\ DueNow # {}
        /\ \A k \in DueNow :
              open_positions[k].market_id \notin DOMAIN market_history)
          => /\ capital' = capital
             /\ Len(open_positions') = Len(open_positions) - Cardinality(DueNow)
             /\ \A k \in DueNow :
                   LET m == open_positions[k].market_id
                   IN /\ m \in DOMAIN pending_market_summaries'
                      /\ Last(pending_market_summaries'[m]).pnl = 0
                      /\ Last(pending_market_summaries'[m]).winning_side
                            = "Error"
             /\ pc' # "raised"]_vars

\* a position in a market without history was resolved inside the loop with
\* PnL 0 and winner 'Error', capital untouched and the position removed; the
\* flush of the summaries after the last timestamp then raised
WitC16_FlushRaisedOnErrorInfo ==
    /\ pc = "raised"
    /\ open_positions = <<>>
    /\ portfolio_history # <<>>
    /\ \E m \in DOMAIN pending_market_summaries :
          /\ pending_market_summaries[m][1].winning_side = "Error"
          /\ pending_market_summaries[m][1].pnl = 0
    /\ \E i \in TxIndices : transactions[i].Type = "Buy"
    /\ capital = initial_capital - BuyValueSum(transactions)
    /\ Unpackable(trade_decision) \/ ~Truthy(trade_decision)

\* the holdings recorded for market m: quantity and total cost per side
HoldingsOf(states, m) ==
    LET state == MarketState(states, m)
    IN <<state.up_qty, state.up_total_cost,
         state.down_qty, state.down_total_cost>>

\* C17 as stated, for AvgArbitrageStrategy: the recorded holdings of a market
\* change only in a step in which the Backtester calls update_portfolio for
\* that market (an accepted trade); a step in which decide is called and its
\* decision rejected, or none returned, leaves them as they were.
CexC17_HoldingsChangeOnlyByUpdatePortfolio ==
    [][\A m \in Markets :
          HoldingsOf(market_states', m) # HoldingsOf(market_states, m)
             => /\ Len(portfolio_calls') = Len(portfolio_calls) + 1
                /\ Last(portfolio_calls').market_id = m]_vars

\* decide recorded a purchase in a market that was already expired: the
\* Backtester rejected it, so no Buy, no position and no update_portfolio
\* call exists for the holdings the strategy shows
WitC17_RejectedDecisionRecorded ==
    /\ transactions = <<>>
    /\ portfolio_calls = <<>>
    /\ risk_events = <<>>
    /\ \E m \in DOMAIN market_states :
          market_states[m].up_qty + market_states[m].down_qty > 0

\* the Buy entries of the log for market m and side
BuysOf(txs, m, side) ==
    SelectSeq(txs, LAMBDA tx :
        tx.Type = "Buy" /\ tx.MarketID = m /\ tx.Side = side)

RECURSIVE QuantitySum(_)
QuantitySum(txs) ==
    IF txs = <<>> THEN 0
    ELSE QuantitySum(SubSeq(txs, 1, Len(txs) - 1)) + Last(txs).Quantity

RECURSIVE FillCostSum(_)
FillCostSum(txs) ==
    IF txs = <<>> THEN 0
    ELSE FillCostSum(SubSeq(txs, 1, Len(txs) - 1))
         + Last(txs).Quantity * Last(txs).EntryPrice

\* C18: at every point of a run, for each market and side, the quantity the
\* strategy's ledger holds is the sum of Quantity, and its cost the sum of
\* Quantity * EntryPrice, over the Buy entries logged for that market and
\* side; a market without a Buy has an empty ledger.
ThmC18_LedgerMatchesLog ==
    LET portfolio_state == PortfolioStateAfter(portfolio_calls)
    IN \A m \in Markets :
          LET portfolio == PortfolioOf(portfolio_state, m)
          IN /\ portfolio.qty_yes = QuantitySum(BuysOf(transactions, m, "Up"))
             /\ portfolio.cost_yes = FillCostSum(BuysOf(transactions, m, "Up"))
             /\ portfolio.qty_no
                   = QuantitySum(BuysOf(transactions, m, "Down"))
             /\ portfolio.cost_no
                   = FillCostSum(BuysOf(transactions, m, "Down"))

\* one market bought on both sides, the Up side at a price moved by
\* slippage from 0.50 to 0.55, while the other market's ledger is empty
WitC18_BothSidesOneMarket ==
    LET portfolio_state == PortfolioStateAfter(portfolio_calls)
    IN \E m \in Markets :
          /\ PortfolioOf(portfolio_state, m).qty_yes = 10
          /\ PortfolioOf(portfolio_state, m).cost_yes = 550
          /\ PortfolioOf(portfolio_state, m).qty_no = 10
          /\ PortfolioOf(portfolio_state, m).cost_no = 520
          /\ \A o \in Markets \ {m} :
                PortfolioOf(portfolio_state, o) = NewPortfolio

\* the timestamps at which the log shows resolutions
ResolutionTimes ==
    {transactions[i].Timestamp :
        i \in {j \in TxIndices : transactions[j].Type = "Resolution"}}

\* C19 as stated: when run_strategy has finished, portfolio_history is in
\* timestamp order, every batch of resolutions, the one after the last
\* timestamp included, has its snapshot, and so the last snapshot shows the
\* final capital whenever a position was resolved.
CexC19_SnapshotAfterEveryBatch ==
    pc = "done" =>
        /\ \A i \in 1..(Len(portfolio_history) - 1) :
              portfolio_history[i][1] < portfolio_history[i + 1][1]
        /\ \A t \in ResolutionTimes :
              \E i \in 1..Len(portfolio_history) : portfolio_history[i][1] = t
        /\ ResolutionTimes # {} =>
              /\ portfolio_history # <<>>
              /\ Last(portfolio_history)[2] = capital

\* a finished run with a snapshot after a batch resolved inside the loop and
\* a winning position force-resolved after the last timestamp, whose payout
\* no snapshot shows
WitC19_ForcedBatchWithoutSnapshot ==
    /\ pc = "done"
    /\ Len(portfolio_history) = 1
    /\ Last(portfolio_history)[2] # capital
    /\ \E i \in TxIndices :
          /\ IsWin(transactions[i])
          /\ transactions[i].Timestamp < transactions[i].MarketID[2]

\* the imbalance of the checked portfolio
CheckedDelta ==
    LET portfolio == PortfolioOf(delta_case.portfolio_state, DeltaMarket)
    IN portfolio.qty_yes - portfolio.qty_no

\* C20 as stated: for every portfolio and side, when the constraint passes
\* for a quantity it passes for every smaller quantity >= 0.
CexC20_MonotoneForEveryPortfolio ==
    delta_passes # <<>> =>
        (delta_passes[1].larger_passes => delta_passes[1].smaller_passes)

\* C20 (amended): for every portfolio whose imbalance |qty_yes - qty_no| is
\* at most MAX_UNHEDGED_DELTA, and every side, when the constraint passes for
\* a quantity Q it passes for every quantity q with 0 <= q <= Q.
ThmC20_MonotoneWithinLimit ==
    (delta_passes # <<>> /\ Abs(CheckedDelta) <= MaxUnhedgedDelta) =>
        (delta_passes[1].larger_passes => delta_passes[1].smaller_passes)

\* an imbalanced portfolio within the limit on which a quantity that crosses
\* to the other side passed, and so did a smaller one
WitC20_SmallerAlsoPasses ==
    /\ delta_passes # <<>>
    /\ Abs(CheckedDelta) = 45
    /\ delta_passes[1].larger = 50
    /\ delta_passes[1].smaller = 5
    /\ delta_passes[1].larger_passes
    /\ delta_passes[1].smaller_passes

\* the log entries of type ty
CountType(txs, ty) == Cardinality({i \in 1..Len(txs) : txs[i].Type = ty})

\* C24: after the last timestamp the force-resolution and the flush go
\* through (the summaries of all positions, old and still open, are
\* readable), and when run_strategy has returned no position is open, no
\* summary is pending, every Buy has been resolved, and a position resolved
\* before its expiration was resolved at the final timestamp.
ThmC24_FinalResolveAndFlush ==
    /\ pc = "final" =>
          SummaryReadable(ResolveAll(RunState, market_history, open_positions,
                                     1, current_timestamp).pending)
    /\ pc = "done" =>
          /\ open_positions = <<>>
          /\ pending_market_summaries = EmptyDict
          /\ CountType(transactions, "Resolution")
                = CountType(transactions, "Buy")
          /\ \A i \in TxIndices :
                (/\ transactions[i].Type = "Resolution"
                 /\ transactions[i].Timestamp < transactions[i].MarketID[2])
                   => /\ transactions[i].Timestamp = Last(Keys)
                      /\ transactions[i].Timestamp = current_timestamp

\* a finished run in which two positions were still open after the last
\* timestamp and were force-resolved at it
WitC24_TwoForceResolved ==
    /\ pc = "done"
    /\ open_positions = <<>>
    /\ pending_market_summaries = EmptyDict
    /\ Cardinality({i \in TxIndices :
          /\ transactions[i].Type = "Resolution"
          /\ transactions[i].Timestamp < transactions[i].MarketID[2]
          /\ transactions[i].Timestamp = Last(Keys)}) = 2

\* C25: after load_data has failed on a missing path, market_data,
\* market_history, capital and transactions are as the constructor left
\* them, and nothing further happens: run_strategy is not called.
ThmC25_MissingFileFailsFast ==
    pc = "not_found" =>
        /\ market_data = <<>>
        /\ market_history = EmptyDict
        /\ capital = initial_capital
        /\ transactions = <<>>
        /\ decide_calls = <<>>
        /\ ~ENABLED <<Next>>_vars

\* load_data has failed on a Backtester with a capital of 100
WitC25_LoadFailed ==
    /\ pc = "not_found"
    /\ initial_capital = 10000
    /\ capital = 10000

\* the log grouped by market: its entries of market m in log order
LogOfMarket(txs, m) == SelectSeq(txs, LAMBDA tx : tx.MarketID = m)

LoggedMarkets(txs) == {txs[i].MarketID : i \in 1..Len(txs)}

\* C26: in every step the log before it is a prefix of the log after it,
\* and after the step the per-market index holds, for exactly the markets of
\* the log, the entries of the log for that market in log order.
ThmC26_AppendOnlyLog ==
    [][/\ Len(transactions') >= Len(transactions)
       /\ SubSeq(transactions', 1, Len(transactions)) = transactions
       /\ DOMAIN transactions_by_market' = LoggedMarkets(transactions')
       /\ \A m \in DOMAIN transactions_by_market' :
             transactions_by_market'[m] = LogOfMarket(transactions', m)]_vars

\* a finished run whose log holds buys and resolutions of two markets, with
\* at least two entries under each market in the index
WitC26_TwoMarketsIndexed ==
    /\ pc = "done"
    /\ Cardinality(DOMAIN transactions_by_market) = 2
    /\ \A m \in DOMAIN transactions_by_market :
          /\ Len(transactions_by_market[m]) >= 2
          /\ transactions_by_market[m] = LogOfMarket(transactions, m)
    /\ transactions[1].MarketID # transactions[2].MarketID

\* C28: quotes that share a timestamp are passed to strategy.decide in the
\* order in which their rows appear in the input file, also when the file is
\* not sorted by Timestamp: for every timestamp, the rows decide was called
\* with are, in call order, the first rows of that timestamp of the file
DecidedRowsAt(t) ==
    SelectSeq([i \in 1..Len(decide_calls) |-> decide_calls[i].row],
              LAMBDA r : r.Timestamp = t)

FileRowsAt(t) == SelectSeq(input_file, LAMBDA r : r.Timestamp = t)

CexC28_SameTimestampInFileOrder ==
    \A t \in 0..(MaxTime + 1) :
        /\ Len(DecidedRowsAt(t)) <= Len(FileRowsAt(t))
        /\ DecidedRowsAt(t) = SubSeq(FileRowsAt(t), 1, Len(DecidedRowsAt(t)))

\* decide was called with both rows of a two-row file, which share their
\* timestamp and belong to different markets, the second row of the file
\* first
WitC28_SecondRowOfFileFirst ==
    /\ Len(input_file) = 2
    /\ input_file[1].Timestamp = input_file[2].Timestamp
    /\ MarketOf(input_file[1]) # MarketOf(input_file[2])
    /\ Len(decide_calls) = 2
    /\ decide_calls[1].row = input_file[2]
    /\ decide_calls[2].row = input_file[1]

\* the (pnl, winning_side) that _resolve_single_position returns for a
\* position, called at timestamp ts on a backtester with the given capital
\* and with nothing logged or pending
ResolutionResult(position, ts, cap) ==
    LET blank == [capital |-> cap, transactions |-> <<>>,
                  transactions_by_market |-> EmptyDict,
                  pending |-> EmptyDict]
        info == Last(ResolveSinglePosition(blank, market_history, position,
                                           ts).pending[position.market_id])
    IN <<info.pnl, info.winning_side>>

\* C30: the (pnl, winning_side) of a position depends only on the quote
\* history of its market and on the position: every logged Resolution names
\* the winning side of the last loaded quote of its market and the PnL of
\* its own side, quantity and entry price against that side; and resolving
\* an open position at any timestamp from now on, on any capital, with or
\* without the state of the run, gives one and the same result
ThmC30_ResolutionDeterminism ==
    /\ \A i \in TxIndices :
          transactions[i].Type = "Resolution" =>
              LET tx == transactions[i]
                  final == FinalQuote(tx.MarketID)
                  winner == WinningSide(final.UpAsk, final.DownAsk)
              IN /\ tx.WinningSide = winner
                 /\ tx.PnL = PositionPnL([side |-> tx.Side,
                                          quantity |-> tx.Quantity,
                                          entry_price |-> tx.EntryPrice],
                                         winner)
    /\ pc \in {"resolve", "quotes", "final"} =>
          \A k \in 1..Len(open_positions) :
              LET position == open_positions[k]
                  here == Last(ResolveSinglePosition(RunState, market_history,
                                   position, current_timestamp)
                               .pending[position.market_id])
              IN \A ts \in current_timestamp..(MaxTime + 1),
                    cap \in InitialCapitals :
                     ResolutionResult(position, ts, cap)
                         = <<here.pnl, here.winning_side>>

\* a finished run in which one market was bought on both sides, so that one
\* position won and the other lost on the same winning side, and an earlier
\* quote of that market pointed to the other side
WitC30_OneWinnerForBothSides ==
    /\ pc = "done"
    /\ \E i, j \in TxIndices :
          /\ transactions[i].Type = "Resolution"
          /\ transactions[j].Type = "Resolution"
          /\ transactions[i].MarketID = transactions[j].MarketID
          /\ transactions[i].Side # transactions[j].Side
          /\ transactions[i].WinningSide = transactions[j].WinningSide
          /\ transactions[i].PnL > 0
          /\ transactions[j].PnL < 0
          /\ LET quotes == market_history[transactions[i].MarketID]
             IN /\ Len(quotes) = 2
                /\ WinningSide(quotes[1].UpAsk, quotes[1].DownAsk)
                      # transactions[i].WinningSide

\* run_strategy lines 295-328 with AvgArbitrageStrategy and slippage off,
\* for one quote at timestamp ts, on the running outcome o = [capital,
\* capital64, market_states, accepted, positions, risk_events]
AvgProcessQuote(o, row, ts) ==
    LET m == MarketOf(row)
        r == AvgDecide(MarketState(o.market_states, m), row, o.capital,
                       o.capital64)
        d == r.decision
        decided == [o EXCEPT !.market_states = SetMarketState(@, m, r.state)]
    IN IF ~Truthy(d) \/ QuoteExpired(ts, row) THEN decided
       ELSE LET side == d.items[1]
                quantity == d.items[2]
                entry_price == d.items[3]
                cost == Cost(quantity, entry_price)
            IN IF Affordable(o.capital, cost, Value64(o.capital64),
                             Cost64(quantity, entry_price))
               THEN [decided EXCEPT
                        !.capital = @ - cost,
                        !.capital64.steps =
                            Append(@, <<-1, quantity, entry_price>>),
                        !.accepted = Append(@,
                            [market_id |-> m, side |-> side,
                             quantity |-> quantity, price |-> entry_price]),
                        !.positions = Append(@,
                            [market_id |-> m, side |-> side,
                             quantity |-> quantity,
                             entry_price |-> entry_price,
                             expiration |-> row.Expiration])]
               ELSE [decided EXCEPT
                        !.risk_events = Append(@,
                            [timestamp |-> ts,
                             event |-> "Insufficient Capital",
                             details |-> [needed |-> cost,
                                          had |-> o.capital]])]

RECURSIVE AvgProcessQuotes(_, _, _)
AvgProcessQuotes(o, rows, ts) ==
    IF rows = <<>> THEN o
    ELSE AvgProcessQuote(
             AvgProcessQuotes(o, SubSeq(rows, 1, Len(rows) - 1), ts),
             Last(rows), ts)

SeqRange(s) == {s[i] : i \in 1..Len(s)}

\* the outcome of a run with AvgArbitrageStrategy and slippage off on quotes
\* that all carry one timestamp, processed in the order given: the final
\* capital (after the resolution at the end), the set of accepted trades and
\* the set of risk events
AvgRunOutcome(rows, cap) ==
    LET ts == rows[1].Timestamp
        o == AvgProcessQuotes(
                 [capital |-> cap, capital64 |-> RunningFloat(cap, <<>>),
                  market_states |-> EmptyDict,
                  accepted |-> <<>>, positions |-> <<>>,
                  risk_events |-> <<>>], rows, ts)
        resolved == ResolveAll(
                 [capital |-> o.capital, transactions |-> <<>>,
                  transactions_by_market |-> EmptyDict,
                  pending |-> EmptyDict],
                 GroupByMarket(rows), o.positions, 1, ts)
    IN [capital |-> resolved.capital,
        accepted |-> SeqRange(o.accepted),
        risk_events |-> SeqRange(o.risk_events)]

\* the outcome of the run that has finished
ActualOutcome ==
    [capital |-> capital,
     accepted |-> SeqRange(portfolio_calls),
     risk_events |-> SeqRange(risk_events)]

\* a finished run, slippage off, on two quotes that share their timestamp
\* and belong to distinct markets
TwoMarketsOneTimestamp ==
    /\ pc = "done"
    /\ SlippageOff(slippage_seconds)
    /\ Len(market_data) = 2
    /\ market_data[1].Timestamp = market_data[2].Timestamp
    /\ MarketOf(market_data[1]) # MarketOf(market_data[2])

\* the run on the same two quotes in the other order
SwappedOutcome ==
    AvgRunOutcome(<<market_data[2], market_data[1]>>, initial_capital)

\* C27: for quotes that share a timestamp and belong to distinct markets,
\* the outcome of the run (final capital, set of accepted trades, risk
\* events) does not depend on the order in which they are processed: the
\* run on the two quotes in the other order ends with the same outcome
CexC27_OrderOfMarketsIrrelevant ==
    TwoMarketsOneTimestamp => SwappedOutcome = ActualOutcome

\* the run bought in both markets and would have bought other quantities in
\* the other order (the replay of the order that was run gives the outcome
\* of the run)
WitC27_QuantitiesDependOnOrder ==
    /\ TwoMarketsOneTimestamp
    /\ Len(portfolio_calls) = 2
    /\ AvgRunOutcome(market_data, initial_capital) = ActualOutcome
    /\ SwappedOutcome.accepted # ActualOutcome.accepted
    /\ Cardinality(SwappedOutcome.accepted) = 2

\* the last call of decide was the first one for the market of its quote,
\* and both asks of the quote are non-zero and differ
FirstDecisionOnDistinctAsks ==
    /\ decide_calls # <<>>
    /\ LET row == Last(decide_calls).row
       IN /\ \A i \in 1..(Len(decide_calls) - 1) :
                MarketOf(decide_calls[i].row) # MarketOf(row)
          /\ row.UpAsk # 0
          /\ row.DownAsk # 0
          /\ row.UpAsk # row.DownAsk

\* floor(current_capital * initial_trade_capital_percentage / price)
ClaimedFirstQuantity(current_capital, price) ==
    (current_capital * InitialTradeCapitalPercentage) \div (100 * price)

\* C29: on the first decision for a market in which both asks are non-zero
\* and differ, AvgArbitrageStrategy buys the cheaper side at its ask, with
\* quantity floor(current_capital * initial_trade_capital_percentage /
\* price), and its recorded quantity and total cost of that side become that
\* quantity and quantity * price
CexC29_FirstTradeSizedByPrice ==
    FirstDecisionOnDistinctAsks =>
        LET call == Last(decide_calls)
            row == call.row
            side == IF row.DownAsk < row.UpAsk THEN "Down" ELSE "Up"
            price == SidePrice(row, side)
            quantity == ClaimedFirstQuantity(call.capital, price)
            state == MarketState(market_states, MarketOf(row))
        IN /\ Truthy(trade_decision)
           /\ trade_decision.items[1] = side
           /\ trade_decision.items[2] = quantity
           /\ trade_decision.items[3] = price
           /\ IF side = "Up"
              THEN /\ state.up_qty = quantity
                   /\ state.up_total_cost = quantity * price
              ELSE /\ state.down_qty = quantity
                   /\ state.down_total_cost = quantity * price

\* the first decision for a market, on 1000 dollars and asks of 0.48 and
\* 0.55, bought 50 shares of the cheaper side where the claimed quantity is
\* 104
WitC29_FiftySharesNot104 ==
    /\ FirstDecisionOnDistinctAsks
    /\ Last(decide_calls).capital = 100000
    /\ Last(decide_calls).row.UpAsk = 48
    /\ Last(decide_calls).row.DownAsk = 55
    /\ Truthy(trade_decision)
    /\ trade_decision.items = <<"Up", 50, 48, One>>
    /\ ClaimedFirstQuantity(100000, 48) = 104
    /\ MarketState(market_states,
                   MarketOf(Last(decide_calls).row)).up_total_cost = 50 * 48

\* the portfolio decide of the HybridStrategy was called on, the side it
\* holds less of and the ask of that side
CalledPortfolio == PortfolioOf(hybrid_portfolio, HybridMarket)

HedgeSide == IF CalledPortfolio.qty_yes > CalledPortfolio.qty_no
             THEN "Down" ELSE "Up"

HedgePrice == SidePrice(hybrid_call.market_data_point, HedgeSide)

Imbalance == Abs(CalledPortfolio.qty_yes - CalledPortfolio.qty_no)

\* shares on one side only, with an average cost that added to the ask of
\* the other side comes to 1.20 or more (the sums of the tests of the
\* stop-loss are 1.20 and 1.21)
OneSidedBeyondTestedSum ==
    LET held_qty == CalledPortfolio.qty_yes + CalledPortfolio.qty_no
        held_cost == CalledPortfolio.cost_yes + CalledPortfolio.cost_no
    IN /\ Imbalance > 0
       /\ (CalledPortfolio.qty_yes = 0 \/ CalledPortfolio.qty_no = 0)
       /\ held_cost + HedgePrice * held_qty >= 120 * held_qty

\* C22: when a market holds shares on one side only, no rebalance under the
\* hedging-cost ceiling is feasible, and the held side's average cost plus
\* the opposite ask exceeds the stop-loss threshold as the tests place it,
\* decide on ample capital returns a buy of the opposite side at its ask
\* for a positive quantity, the whole imbalance when liquidity allows it
CexC22_StopLossHedgesOneSidedPosition ==
    (/\ ~hybrid_call.none
     /\ hybrid_call.current_capital = 100000
     /\ OneSidedBeyondTestedSum
     /\ SafeRebalanceQuantity(CalledPortfolio, hybrid_call.market_data_point,
                              HedgeSide, HedgePrice, 100000) = 0)
    => /\ Truthy(hybrid_call.decision)
       /\ hybrid_call.decision.items[1] = HedgeSide
       /\ hybrid_call.decision.items[2] > 0
       /\ hybrid_call.decision.items[3] = HedgePrice
       /\ CheckLiquidityConstraint(hybrid_call.market_data_point, HedgeSide,
                                   Imbalance)
             => hybrid_call.decision.items[2] = Imbalance

\* the call of tests/test_stop_loss.py: 100 Up shares held at 0.60, a
\* DownAsk of 0.61, liquidity of 500 and a capital of 1000, and decide
\* returned None
WitC22_TestedStopLossReturnsNone ==
    /\ ~hybrid_call.none
    /\ hybrid_call.current_capital = 100000
    /\ CalledPortfolio.qty_yes = 100 /\ CalledPortfolio.cost_yes = 6000
    /\ CalledPortfolio.qty_no = 0 /\ CalledPortfolio.cost_no = 0
    /\ hybrid_call.market_data_point.DownAsk = 61
    /\ hybrid_call.market_data_point.UpAskLiquidity = 500
    /\ OneSidedBeyondTestedSum
    /\ hybrid_call.decision = NoneDecision

\* C23: HybridStrategy makes no trade in a market whose holdings are
\* balanced and non-empty: on qty_yes = qty_no > 0 decide returns None for
\* every quote and capital
ThmC23_NoTradeWhenBalanced ==
    (/\ ~hybrid_call.none
     /\ CalledPortfolio.qty_yes = CalledPortfolio.qty_no
     /\ CalledPortfolio.qty_yes > 0)
    => hybrid_call.decision = NoneDecision

\* decide returned None on 100 shares a side for a quote inside the signal
\* window on which an empty portfolio opens a trade, and for a quote on
\* which a one-sided portfolio is force-hedged
WitC23_BalancedIgnoresSignal ==
    /\ ~hybrid_call.none
    /\ CalledPortfolio.qty_yes = 100
    /\ CalledPortfolio.qty_no = 100
    /\ hybrid_call.decision = NoneDecision
    /\ Truthy(HybridOpen(hybrid_call.market_data_point,
                         hybrid_call.current_capital))

\* the portfolio_state of the RebalancingStrategy of the run
RebalancingPortfolio(m) ==
    PortfolioOf(PortfolioStateAfter(portfolio_calls), m)

\* the last decision was logged as a Buy
LastDecisionAccepted ==
    /\ decide_calls # <<>>
    /\ Len(transactions) > Last(decide_calls).logged
    /\ transactions[Last(decide_calls).logged + 1].Type = "Buy"

\* the portfolio_state the last decision was made on
PortfolioDecidedOn(m) ==
    IF LastDecisionAccepted
    THEN PortfolioOf(PortfolioStateAfter(
             SubSeq(portfolio_calls, 1, Len(portfolio_calls) - 1)), m)
    ELSE RebalancingPortfolio(m)

\* C21: under RebalancingStrategy driven by the Backtester, in every
\* reachable state and for every market |qty_yes - qty_no| is at most
\* MAX_UNHEDGED_DELTA, and every trade the strategy returns passes the delta
\* constraint on the portfolio it was decided on, accepted or rejected
ThmC21_DeltaWithinLimit ==
    /\ \A m \in Markets :
          Abs(RebalancingPortfolio(m).qty_yes - RebalancingPortfolio(m).qty_no)
              <= MaxUnhedgedDelta
    /\ (decide_calls # <<>> /\ Truthy(trade_decision)) =>
          LET portfolio ==
                  PortfolioDecidedOn(MarketOf(Last(decide_calls).row))
              bought == IF trade_decision.items[1] = "Up"
                        THEN trade_decision.items[2]
                        ELSE -trade_decision.items[2]
          IN Abs(portfolio.qty_yes - portfolio.qty_no + bought)
                 <= MaxUnhedgedDelta

\* a market was bought up to the limit of 50 on one side, and a later trade
\* the strategy returned for it, 50 of the other side, was rejected by the
\* Backtester
WitC21_AtLimitAndHedgeRejected ==
    /\ \E m \in Markets :
          /\ Abs(RebalancingPortfolio(m).qty_yes
                 - RebalancingPortfolio(m).qty_no) = MaxUnhedgedDelta
          /\ decide_calls # <<>>
          /\ MarketOf(Last(decide_calls).row) = m
    /\ Len(portfolio_calls) = 1
    /\ Len(decide_calls) = 2
    /\ Truthy(trade_decision)
    /\ trade_decision.items[1] # portfolio_calls[1].side
    /\ trade_decision.items[2] = MaxUnhedgedDelta
    /\ ~LastDecisionAccepted

\* the Buy entries of the log, in order
Buys == SelectSeq(transactions, LAMBDA tx : tx.Type = "Buy")

\* the Buy that opened a position or that a Resolution settles
BuyMatches(buy, m, side, quantity, price) ==
    /\ buy.MarketID = m
    /\ buy.Side = side
    /\ buy.Quantity = quantity
    /\ buy.EntryPrice = price

\* C39: one executed price is used throughout an accepted trade: the k-th
\* Buy carries the price of the k-th update_portfolio call and a Value (the
\* amount debited, by which capital is accounted for) of quantity times it;
\* every open position and every Resolution carries the EntryPrice of a Buy
\* of its market, side and quantity, and the Resolution's PnL is computed on
\* it; and the price of the last accepted trade is the price after
\* slippage, not the decided one where they differ
ThmC39_OneExecutedPrice ==
    /\ Len(Buys) = Len(portfolio_calls)
    /\ \A k \in 1..Len(Buys) :
          /\ Buys[k].EntryPrice = portfolio_calls[k].price
          /\ Buys[k].Quantity = portfolio_calls[k].quantity
          /\ Buys[k].Value = Buys[k].Quantity * Buys[k].EntryPrice
          /\ Buys[k].PnL = -Buys[k].Value
    /\ capital = Conserved(transactions)
    /\ \A k \in 1..Len(open_positions) :
          \E j \in 1..Len(Buys) :
              BuyMatches(Buys[j], open_positions[k].market_id,
                         open_positions[k].side, open_positions[k].quantity,
                         open_positions[k].entry_price)
    /\ \A i \in TxIndices :
          transactions[i].Type = "Resolution" =>
              LET tx == transactions[i]
              IN /\ \E j \in 1..(i - 1) :
                       /\ transactions[j].Type = "Buy"
                       /\ BuyMatches(transactions[j], tx.MarketID, tx.Side,
                                     tx.Quantity, tx.EntryPrice)
                 /\ tx.Value = tx.Quantity * tx.EntryPrice
                 /\ tx.PnL = PositionPnL([side |-> tx.Side,
                                          quantity |-> tx.Quantity,
                                          entry_price |-> tx.EntryPrice],
                                         tx.WinningSide)
    /\ (LastDecisionAccepted /\ Truthy(trade_decision)) =>
          LET call == Last(decide_calls)
              buy == transactions[call.logged + 1]
          IN buy.EntryPrice =
                 ApplySlippage(slippage_seconds, market_history,
                               call.row.Timestamp, MarketOf(call.row),
                               trade_decision.items[1],
                               trade_decision.items[3])

\* a finished run whose one trade was decided at 0.50 and executed, after
\* slippage, at 0.55: the Buy, the update_portfolio call and the Resolution
\* carry 0.55 and the winning position earned 10 * 0.45
WitC39_SlippedPriceEverywhere ==
    /\ pc = "done"
    /\ Len(transactions) = 2
    /\ \A tr \in Trades : tr[1] = "Up" => tr[3] = 50
    /\ transactions[1].Type = "Buy"
    /\ transactions[1].Side = "Up"
    /\ transactions[1].EntryPrice = 55
    /\ transactions[1].Value = 550
    /\ portfolio_calls[1].price = 55
    /\ transactions[2].Type = "Resolution"
    /\ transactions[2].EntryPrice = 55
    /\ transactions[2].PnL = 450
    /\ capital = initial_capital + 450

\* positions of both markets and sides, and the lists of up to three of them
SamplePositions ==
    {[market_id |-> m, side |-> side, quantity |-> 10, entry_price |-> 50,
      expiration |-> m[2]] : m \in Markets, side \in Sides}

SamplePositionLists ==
    UNION {[1..n -> SamplePositions] : n \in 0..3}

\* the position a Buy opened
PositionOpenedBy(buy) ==
    [market_id |-> buy.MarketID, side |-> buy.Side,
     quantity |-> buy.Quantity, entry_price |-> buy.EntryPrice,
     expiration |-> buy.MarketID[2]]

RECURSIVE PositionsOpenedBy(_)
PositionsOpenedBy(buys) ==
    IF buys = <<>> THEN <<>>
    ELSE <<PositionOpenedBy(Head(buys))>> \o PositionsOpenedBy(Tail(buys))

\* C36: while the quotes of a timestamp t are evaluated, and after all of
\* them, every open position expires after t; the open positions are, in the
\* order they were bought, exactly the positions of the Buys of markets that
\* expire after t, so none was opened expired; and deleting the due positions
\* by index leaves the others, in their order
ThmC36_NoExpiredPositionOpen ==
    /\ pc \in {"quotes", "resolve", "final"} =>
          /\ \A k \in 1..Len(open_positions) :
                ~PositionExpired(current_timestamp, open_positions[k])
          /\ open_positions = PositionsOpenedBy(SelectSeq(Buys,
                LAMBDA buy : buy.MarketID[2] > current_timestamp))
    /\ \A buy \in SeqRange(Buys) : buy.Timestamp < buy.MarketID[2]
    /\ pc = "constructed" =>
          \A positions \in SamplePositionLists, ts \in 1..MaxTime :
              RemoveResolved(positions, ts) =
                  SelectSeq(positions, LAMBDA p : p.expiration > ts)

\* C36 witness: the position bought at timestamp 1 in the market expiring at
\* 2 was resolved and removed at timestamp 2, before the quote of the other
\* market was evaluated there and bought; that position alone is open
WitC36_ExpiredRemovedBeforeDecide ==
    /\ pc = "final"
    /\ current_timestamp = 2
    /\ Len(transactions) = 3
    /\ transactions[1].Type = "Buy" /\ transactions[1].MarketID = <<2, 2>>
    /\ transactions[2].Type = "Resolution"
    /\ transactions[3].Type = "Buy" /\ transactions[3].MarketID = <<3, 3>>
    /\ Len(open_positions) = 1
    /\ open_positions[1].expiration = 3

\* ---------------------------------------------------------------------------
\* generate_report (backtester.py lines 343-378): the figures of the report
\* ---------------------------------------------------------------------------

\* line 344
buy_trades == SelectSeq(transactions, LAMBDA t : t.Type = "Buy")

\* line 345
resolution_trades == SelectSeq(transactions, LAMBDA t : t.Type = "Resolution")

RECURSIVE PnLSum(_)
PnLSum(txs) ==
    IF txs = <<>> THEN 0 ELSE Head(txs).PnL + PnLSum(Tail(txs))

\* (variant: the total is summed from the PnL column of the whole log)
total_pnl_OfWholeLog == PnLSum(transactions)

\* line 346
total_pnl == capital - initial_capital

\* line 367
winning_trades_count ==
    Cardinality({k \in 1..Len(resolution_trades) : resolution_trades[k].PnL > 0})

\* line 368
losing_trades_count == Len(resolution_trades) - winning_trades_count

\* generate_report() after run_strategy has returned: the lines it prints
\* for Total PnL, Number of Trading actions, Winning and Losing Trades
GenerateReport ==
    /\ pc = "done"
    /\ report.none
    /\ report' = [none |-> FALSE,
                  total_pnl |-> total_pnl,
                  trading_actions |-> Len(buy_trades),
                  winning_trades_count |-> winning_trades_count,
                  losing_trades_count |-> losing_trades_count]
    /\ UNCHANGED <<strategy_vars, input_file,
                   initial_capital, slippage_seconds, capital, transactions,
                   open_positions, market_data, market_history,
                   pending_market_summaries, transactions_by_market,
                   portfolio_history, risk_events, pc, grp, rowi,
                   current_timestamp, trade_decision, decide_calls,
                   portfolio_calls>>

\* a Backtester built with slippage_seconds left at its default,
\* config.SLIPPAGE_SECONDS; on it load_data, run_strategy and
\* generate_report, in the order backtester.py __main__ (lines 413-431)
\* calls them
InitReport ==
    /\ Init
    /\ slippage_seconds = ConfigSlippageSeconds

NextReport ==
    \/ Next
    \/ GenerateReport

SpecReport == InitReport /\ [][NextReport]_vars

\* avg_arbitrage_backtester.py main (lines 26-47): load_data, returning on a
\* FileNotFoundError (lines 37-41), run_strategy with the
\* AvgArbitrageStrategy (line 44), generate_report (line 47)
NextAvgArbitrage ==
    \/ LoadAvgData
    \/ LoadMissingFile
    \/ BeginRun
    \/ ResolveExpired
    \/ AvgQuote
    \/ FinalResolve
    \/ GenerateReport

SpecAvgArbitrage == InitAvgArbitrage /\ [][NextAvgArbitrage]_vars

\* C35: when run_strategy has finished, the report's total PnL, capital less
\* initial_capital, is the sum of the PnL of the Resolutions, and its winning
\* and losing trades together number the Buys
ThmC35_ReportAgreesWithLog ==
    ~report.none =>
        /\ report.total_pnl = PnLSum(resolution_trades)
        /\ report.winning_trades_count + report.losing_trades_count
              = report.trading_actions

\* C35 witness: the report of a run of two Buys, one resolved as a win and
\* one as a loss, with a total PnL that is neither's alone
WitC35_OneWinOneLoss ==
    /\ ~report.none
    /\ report.trading_actions = 2
    /\ report.winning_trades_count = 1
    /\ report.losing_trades_count = 1
    /\ report.total_pnl # 0
    /\ \A k \in 1..2 : report.total_pnl # resolution_trades[k].PnL

\* self.capital as decide was given it at a call: the float the log of that
\* moment had made of it
CapitalAtCall(call) ==
    RunningCapital(initial_capital, SubSeq(transactions, 1, call.logged))

\* what the search of the last quote decided works on: the portfolio of the
\* market, the quote, the side bought and its ask, the capital, and the
\* quantity the search starts from
LastSearch ==
    LET call == Last(decide_calls)
        portfolio == PortfolioDecidedOn(MarketOf(call.row))
        side == RebalancingSide(portfolio, call.row)
    IN [portfolio |-> portfolio, row |-> call.row, side |-> side,
        price |-> SidePrice(call.row, side), cash |-> call.capital,
        cash64 |-> CapitalAtCall(call),
        maximum |-> RebalancingMaximum(portfolio, call.row)]

\* the quantities from 1 to the maximum candidate that pass the four tests
\* in a search
PassingIn(search) ==
    {q \in 1..search.maximum :
        RebalancingPasses(search.portfolio, search.row, search.side,
                          search.price, search.cash, search.cash64, q)}

\* the quantity the while loop of a search ends with
SearchedIn(search) ==
    RebalancingSearch(search.portfolio, search.row, search.side,
                      search.price, search.cash, search.cash64, 1,
                      search.maximum)

\* the states a quote of the loop leaves: the next row of the group, or the
\* end of the group
AfterDecide == (pc = "quotes" /\ rowi > 1) \/ pc \in {"resolve", "final"}

\* C32: a trade RebalancingStrategy.decide returns has the largest quantity
\* between 1 and the maximum candidate that is affordable and passes the
\* delta, liquidity and safety-margin tests; decide returns None exactly
\* when no quantity in that range passes; and the loop counting down by one
\* from the maximum ends, with that quantity or with none
ThmC32_LargestPassingQuantity ==
    (decide_calls # <<>> /\ AfterDecide) =>
        \E search \in {LastSearch} :
            \E passing \in {PassingIn(search)} :
                /\ Truthy(trade_decision) =>
                      /\ trade_decision.items[2] \in passing
                      /\ \A q \in passing : q <= trade_decision.items[2]
                      /\ SearchedIn(search) = trade_decision.items[2]
                /\ ~Truthy(trade_decision) <=> passing = {}
                /\ ~Truthy(trade_decision) => SearchedIn(search) = 0

\* C32 witness: on a flat market the search started at 500 and returned 50,
\* larger quantities failing a test; and a None on a search that was run
WitC32_SearchedDownFromMaximum ==
    /\ pc = "quotes"
    /\ decide_calls # <<>>
    /\ Truthy(trade_decision)
    /\ trade_decision.items[2] = 50
    /\ RebalancingMaximum(PortfolioDecidedOn(MarketOf(Last(decide_calls).row)),
                          Last(decide_calls).row) = MaxTradeSize

\* C33: every trade HybridStrategy.decide returns, the opening trade on a
\* flat market included, leaves the imbalance of the market's portfolio,
\* |qty_yes - qty_no| after the trade, at most MAX_UNHEDGED_DELTA
CexC33_EveryTradeWithinDelta ==
    (~hybrid_call.none /\ Truthy(hybrid_call.decision)) =>
        CheckDeltaConstraint(CalledPortfolio, hybrid_call.decision.items[1],
                             hybrid_call.decision.items[2])

\* an opening trade on a flat market of more shares than MAX_UNHEDGED_DELTA
WitC33_EntryBeyondDelta ==
    /\ ~hybrid_call.none
    /\ CalledPortfolio.qty_yes = 0 /\ CalledPortfolio.qty_no = 0
    /\ Truthy(hybrid_call.decision)
    /\ hybrid_call.decision.items[2] > MaxUnhedgedDelta
    /\ hybrid_call.decision.items[2] =
          OpeningQuantity(hybrid_call.current_capital,
                          hybrid_call.decision.items[3])

\* ------------------------------------- the two strategies that rebalance
\* a process runs one of the two: a Backtester run with RebalancingStrategy,
\* or calls on a HybridStrategy; neither starts once the other has
NextRebalancer ==
    \/ /\ hybrid_call.none /\ hybrid_portfolio = EmptyDict
       /\ NextRebalancing
    \/ /\ pc = "constructed"
       /\ NextHybrid

SpecRebalancer == InitHybrid /\ [][NextRebalancer]_vars

\* the portfolio of the quote's market that the last decide of the
\* RebalancingStrategy was called on
LastDecidedPortfolio == PortfolioDecidedOn(MarketOf(Last(decide_calls).row))

\* the lighter side of a portfolio
UnderWeightedSide(portfolio) ==
    IF portfolio.qty_yes > portfolio.qty_no THEN "Down" ELSE "Up"

\* a trade of this side and quantity buys the lighter side of an unbalanced
\* portfolio, at least one share and no more than the imbalance
WithinImbalance(portfolio, side, quantity) ==
    /\ side = UnderWeightedSide(portfolio)
    /\ 1 <= quantity
    /\ quantity <= Abs(portfolio.qty_yes - portfolio.qty_no)

\* C34: on an unbalanced market every trade returned by
\* RebalancingStrategy.decide, and by HybridStrategy.decide on either of its
\* paths, buys the under-weighted side, at least 1 and at most
\* |qty_yes - qty_no| shares; once accepted, the imbalance is smaller
\* than it was and the side that was heavier is not the lighter one
ThmC34_RebalanceNeverOvershoots ==
    /\ (/\ ~hybrid_call.none
        /\ Imbalance > 0
        /\ Truthy(hybrid_call.decision))
       => WithinImbalance(CalledPortfolio, hybrid_call.decision.items[1],
                          hybrid_call.decision.items[2])
    /\ (/\ decide_calls # <<>>
        /\ pc \in {"quotes", "resolve", "final"}
        /\ Truthy(trade_decision)
        /\ LastDecidedPortfolio.qty_yes # LastDecidedPortfolio.qty_no)
       => /\ WithinImbalance(LastDecidedPortfolio, trade_decision.items[1],
                             trade_decision.items[2])
          /\ LastDecisionAccepted =>
                LET before == LastDecidedPortfolio
                    after == RebalancingPortfolio(
                                 MarketOf(Last(decide_calls).row))
                IN /\ Abs(after.qty_yes - after.qty_no)
                         < Abs(before.qty_yes - before.qty_no)
                   /\ before.qty_yes > before.qty_no
                         => after.qty_yes >= after.qty_no
                   /\ before.qty_yes < before.qty_no
                         => after.qty_yes <= after.qty_no

\* C34 witness: a HybridStrategy holding 100 shares more on one side
\* returned a hedge of fewer shares than the imbalance
WitC34_PartialHedge ==
    /\ ~hybrid_call.none
    /\ Imbalance = 100
    /\ Truthy(hybrid_call.decision)
    /\ hybrid_call.decision.items[1] = HedgeSide
    /\ hybrid_call.decision.items[2] < Imbalance

\* the total cost the strategy has recorded for a market
RecordedCost(state) == state.up_total_cost + state.down_total_cost

\* the smaller of the two recorded quantities
MinQty(state) ==
    IF state.up_qty < state.down_qty THEN state.up_qty ELSE state.down_qty

\* a market in which the strategy has returned a balancing trade: the first
\* trade buys one side only and every balancing trade buys the other side
BalancingTradeReturned(state) == state.up_qty > 0 /\ state.down_qty > 0

\* the recorded cost with the margin is covered by either outcome's payout,
\* and is within the allocation of the capital seen at the first quote
LockedWithinAllocation(state) ==
    /\ (100 + Margin) * RecordedCost(state) <= 100 * One * MinQty(state)
    /\ 100 * RecordedCost(state)
          <= MaxCapitalAllocationPercentage * state.initial_capital_per_market

\* markets holding shares of one side, 100 bought at 0.40 or 101 bought at
\* 0.20 or 0.40, first quoted at a capital of 50, 100 or 2000 dollars (the
\* capital of the first trade may be larger than that of the first quote:
\* resolutions come in between)
HeldMarketStates ==
    {AddHolding([NewMarketState EXCEPT
                    !.initial_capital_per_market = c,
                    !.initial_capital_per_market64 = RunningFloat(c, <<>>)],
                side, held[1], held[2]) :
        side \in Sides, c \in {5000, 10000, 200000},
        held \in {<<100, 40>>, <<101, 20>>, <<101, 40>>}}

\* the asks a held market is quoted at: those of the files, and 0.20 on
\* both sides
HeldMarketAsks ==
    {pair \in AskPairs : pair[1] > 0 /\ pair[2] > 0} \cup {<<20, 20>>}

\* C37: once AvgArbitrageStrategy has returned a balancing trade for a
\* market, the total cost it has recorded for the market times (1 + margin)
\* is at most min(up_qty, down_qty), one dollar a share, and the total cost
\* is at most max_capital_allocation_percentage of the capital seen at the
\* market's first quote; so it is for the state any balancing trade leaves
\* (on 101 Down shares bought at 0.20 and an Up ask of 0.20 the trade is
\* for 398 shares: the float quotient is just below 399)
ThmC37_LockedProfit ==
    /\ \A m \in DOMAIN market_states :
          BalancingTradeReturned(market_states[m]) =>
              LockedWithinAllocation(market_states[m])
    /\ pc = "constructed" =>
          /\ \A state \in HeldMarketStates, a \in HeldMarketAsks :
                Truthy(AvgBalancingTrade(state, a[1], a[2]).decision) =>
                    LockedWithinAllocation(
                        AvgBalancingTrade(state, a[1], a[2]).state)
          /\ \E state \in HeldMarketStates :
                /\ state.down_qty = 101
                /\ AvgBalancingTrade(state, 20, 20).decision
                      = TupleDecision(<<"Up", 398, 20, One>>)

\* C37 witness: the quote just decided returned a balancing trade, the
\* second trade of its market, for more shares than the first
WitC37_BalancingTradeReturned ==
    /\ decide_calls # <<>>
    /\ pc \in {"quotes", "resolve", "final"}
    /\ Truthy(trade_decision)
    /\ LET state == MarketState(market_states,
                                MarketOf(Last(decide_calls).row))
       IN /\ BalancingTradeReturned(state)
          /\ trade_decision.items[2] = state.up_qty
          /\ state.up_qty > state.down_qty + MinImbalanceThreshold
          /\ RecordedCost(state) > 0

\* --------------------------------- a run on data replaced by preprocess_data
\* SHARP_MOVE_THRESHOLD = 0.04, in hundredths
SharpMoveThreshold == 4

\* a quote with the columns of the book preprocess_data reads beside those
\* run_strategy reads: the mid prices and the liquidity bid on either side
BookRow(row, mids, bids) ==
    [Timestamp |-> row.Timestamp, TargetTime |-> row.TargetTime,
     Expiration |-> row.Expiration,
     UpAsk |-> row.UpAsk, DownAsk |-> row.DownAsk,
     UpMid |-> mids[1], DownMid |-> mids[2],
     UpBidLiquidity |-> bids[1], DownBidLiquidity |-> bids[2]]

\* the mid price of a side asked at ask, a cent under it, and 0 without an
\* ask; the liquidity bid on it, ten shares a cent of the ask
MidOfAsk(ask) == IF ask = 0 THEN 0 ELSE ask - 1
BidsOfAsk(ask) == 10 * ask

\* the files of these runs: the quotes of Files, each with the columns of
\* its book, and the files of MaxRows quotes also with the TargetTime field
\* of the last quote left without text
PreprocessFiles ==
    {[i \in DOMAIN file |->
        BookRow(WithoutTargetTime(file, blank)[i],
                <<MidOfAsk(file[i].UpAsk), MidOfAsk(file[i].DownAsk)>>,
                <<BidsOfAsk(file[i].UpAsk), BidsOfAsk(file[i].DownAsk)>>)] :
        file \in Files, blank \in {{}, {MaxRows}}}

\* a date is before another in sort_values: NaT comes after every date
\* (na_position='last')
DateBefore(a, b) == a # NaT /\ (b = NaT \/ a < b)

\* hybrid_backtester.py line 12 (preprocessing.py line 7 alike):
\* df.sort_values(["TargetTime", "Expiration", "Timestamp"]), a sort on
\* several columns, which keeps rows of equal keys in their order
PreprocessBefore(a, b) ==
    \/ DateBefore(a.TargetTime, b.TargetTime)
    \/ a.TargetTime = b.TargetTime /\ DateBefore(a.Expiration, b.Expiration)
    \/ /\ a.TargetTime = b.TargetTime /\ a.Expiration = b.Expiration
       /\ DateBefore(a.Timestamp, b.Timestamp)

RECURSIVE InsertPreprocessed(_, _)
InsertPreprocessed(sorted, row) ==
    IF sorted = <<>> THEN <<row>>
    ELSE IF ~PreprocessBefore(row, Last(sorted)) THEN Append(sorted, row)
    ELSE Append(InsertPreprocessed(SubSeq(sorted, 1, Len(sorted) - 1), row),
                Last(sorted))

\* line 12: the rows sorted by market and then Timestamp, re-indexed from 0
RECURSIVE SortByMarket(_)
SortByMarket(df) ==
    IF df = <<>> THEN <<>>
    ELSE InsertPreprocessed(SortByMarket(SubSeq(df, 1, Len(df) - 1)),
                            Last(df))

\* lines 15-17: the whole minutes from TargetTime to Timestamp, the dates in
\* seconds; astype(int) drops the fraction, towards 0
MinuteFromStart(row) ==
    LET seconds == row.Timestamp - row.TargetTime
    IN IF seconds >= 0 THEN seconds \div 60 ELSE -((-seconds) \div 60)

\* lines 15-17: the difference of a row without a Timestamp or a TargetTime
\* is NaT, its minutes NaN, and astype(int) raises on a NaN
MinutesNotFinite(df) ==
    \E i \in 1..Len(df) : df[i].Timestamp = NaT \/ df[i].TargetTime = NaT

\* lines 20-21: the row before row i in the group of its market, 0 when row
\* i is the first of the group or in no group
PreviousOfMarket(df, i) ==
    LET before == {j \in 1..(i - 1) : MarketOf(df[j]) = MarketOf(df[i])}
    IN IF ~HasMarket(df[i]) \/ before = {} THEN 0
       ELSE CHOOSE j \in before : \A k \in before : k <= j

\* lines 20-21: groupby(["TargetTime", "Expiration"])[column].diff()
MidDelta(df, i, column) ==
    IF PreviousOfMarket(df, i) = 0 THEN NaN
    ELSE df[i][column] - df[PreviousOfMarket(df, i)][column]

\* lines 30-31: abs() of the delta >= sharp_move_threshold, on the floats:
\* the difference of the two mid prices against 0.04; False on a NaN
SharpMove(df, i, column) ==
    IF PreviousOfMarket(df, i) = 0 THEN FALSE
    ELSE LET mid == df[i][column]
             previous == df[PreviousOfMarket(df, i)][column]
             delta64 == Sub64(Decimal64(mid), Decimal64(previous))
         IN CompareAmounts(Abs(mid - previous), SharpMoveThreshold,
                           [delta64 EXCEPT !.neg = FALSE],
                           Decimal64(SharpMoveThreshold)) >= 0

\* lines 15-32: row i of the sorted frame with the five columns added
WithFeatures(df, i) ==
    [Timestamp |-> df[i].Timestamp, TargetTime |-> df[i].TargetTime,
     Expiration |-> df[i].Expiration,
     UpAsk |-> df[i].UpAsk, DownAsk |-> df[i].DownAsk,
     UpMid |-> df[i].UpMid, DownMid |-> df[i].DownMid,
     UpBidLiquidity |-> df[i].UpBidLiquidity,
     DownBidLiquidity |-> df[i].DownBidLiquidity,
     MinuteFromStart |-> MinuteFromStart(df[i]),
     UpMidDelta |-> MidDelta(df, i, "UpMid"),
     DownMidDelta |-> MidDelta(df, i, "DownMid"),
     BidLiquidityImbalance |->
         df[i].UpBidLiquidity - df[i].DownBidLiquidity,
     SharpEvent |-> SharpMove(df, i, "UpMid") \/ SharpMove(df, i, "DownMid")]

\* what a call gives: the exception it raised, or the value it returned
Raised == [raised |-> TRUE]
Returned(value) == [raised |-> FALSE, value |-> value]

\* preprocess_data, lines 10-32: the rows sorted by market and then
\* Timestamp and re-indexed, with the columns MinuteFromStart, UpMidDelta,
\* DownMidDelta, BidLiquidityImbalance and SharpEvent added; the ValueError
\* of astype(int), raised at line 17 before a column is added, when a row
\* has no TargetTime
preprocess_data(df) ==
    LET sorted == SortByMarket(df)
    IN IF MinutesNotFinite(sorted) THEN Raised
       ELSE Returned([i \in 1..Len(sorted) |-> WithFeatures(sorted, i)])

\* hybrid_backtester.py __main__ lines 55-62: load_data(file), then
\* backtester.market_data = preprocess_data(backtester.market_data), which
\* is not assigned when preprocess_data raises and the script ends;
\* market_history stays as load_data built it
LoadAndPreprocess ==
    /\ pc = "constructed"
    /\ \E file \in PreprocessFiles :
          \E loaded \in SortOutcomes(file) :
              /\ market_history' = GroupByMarket(loaded)
              /\ IF preprocess_data(loaded).raised
                 THEN market_data' = loaded /\ pc' = "raised"
                 ELSE /\ market_data' = preprocess_data(loaded).value
                      /\ pc' = "loaded"
    /\ UNCHANGED <<strategy_vars, scenario_vars,
                   initial_capital, slippage_seconds, capital, transactions,
                   open_positions, pending_market_summaries,
                   transactions_by_market, portfolio_history, risk_events,
                   grp, rowi, current_timestamp, trade_decision,
                   decide_calls, portfolio_calls>>

NextPreprocessed ==
    \/ LoadAndPreprocess
    \/ BeginRun
    \/ ResolveExpired
    \/ NoTrade
    \/ RejectExpired
    \/ UnpackFails
    \/ AcceptTrade
    \/ RejectInsufficient
    \/ FinalResolve

SpecPreprocessed == Init /\ [][NextPreprocessed]_vars

\* the latest Timestamp of the data
LatestTimestamp ==
    CHOOSE t \in {market_data[i].Timestamp : i \in 1..Len(market_data)} :
        \A i \in 1..Len(market_data) : market_data[i].Timestamp <= t

\* C31: on data replaced by the output of preprocess_data, run_strategy
\* visits the distinct timestamps in ascending order, so that after the loop
\* the final timestamp is the latest of the data and every position resolved
\* inside the loop was resolved at or after its expiration, none before a
\* smaller timestamp was visited
CexC31_PreprocessedVisitedAscending ==
    /\ \A i, j \in 1..Len(Keys) : i < j => Keys[i] < Keys[j]
    /\ (pc \in {"final", "done"} /\ market_data # <<>>) =>
          current_timestamp = LatestTimestamp

\* the quote of the market that starts first is at timestamp 3, that of the
\* other market at timestamp 1: timestamp 3 was visited first, the trade
\* bought at timestamp 1 was force-resolved there, and the run ended with
\* current_timestamp 1
WitC31_LaterTimestampVisitedFirst ==
    /\ pc = "done"
    /\ Keys = <<3, 1>>
    /\ current_timestamp = 1
    /\ Len(transactions) = 2
    /\ transactions[1].Type = "Buy" /\ transactions[1].Timestamp = 1
    /\ transactions[2].Type = "Resolution" /\ transactions[2].Timestamp = 1
    /\ transactions[2].MarketID = <<3, 3>>

\* ------------------------------------- a run with OptimizedHybridStrategy
\* OptimizedHybridStrategy.__init__ (lines 7-26); prices in hundredths,
\* MAX_ALLOCATION_PER_TRADE in thousandths, TRAILING_STOP_PERCENT in tenths
MaxAllocationPerTradePermille == 75
VolatilityThreshold == 2
TrailingStopTenths == 1

\* the number of quotes of a data file of these runs
MaxQuotes == 3

\* the markets of these runs: (TargetTime, Expiration)
OptimizedMarkets == {<<1, 4>>, <<2, 3>>}

\* the capitals of these runs (1000 and 10 dollars)
OptimizedCapitals == {100000, 1000}

\* what a quote carries besides its place: asks, mids and the feature
\* columns the strategy reads
OptimizedQuote(up, down, minute, sharp, volatility, mid_delta, imbalance) ==
    [UpAsk |-> up + 2, DownAsk |-> down + 2, UpMid |-> up, DownMid |-> down,
     MinuteFromStart |-> minute, SharpEvent |-> sharp,
     Volatility |-> volatility, UpMidDelta |-> mid_delta,
     DownMidDelta |-> -mid_delta, BidLiquidityImbalance |-> imbalance]

\* a signal for Up, a signal for Down, a signal on a volatile market, a
\* quiet quote with Up risen and one with Up fallen
OptimizedQuotes ==
    {OptimizedQuote(50, 48, 3, TRUE, 1, 5, 10),
     OptimizedQuote(48, 50, 3, TRUE, 1, -5, -10),
     OptimizedQuote(50, 48, 3, TRUE, 3, 5, 10),
     OptimizedQuote(60, 40, 4, FALSE, 1, 1, 0),
     OptimizedQuote(40, 60, 4, FALSE, 1, -1, 0)}

\* the row of a file: a quote of a market at a timestamp
OptimizedRow(t, m, quote) ==
    [Timestamp |-> t, TargetTime |-> m[1], Expiration |-> m[2],
     UpAsk |-> quote.UpAsk, DownAsk |-> quote.DownAsk,
     UpMid |-> quote.UpMid, DownMid |-> quote.DownMid,
     MinuteFromStart |-> quote.MinuteFromStart,
     SharpEvent |-> quote.SharpEvent, Volatility |-> quote.Volatility,
     UpMidDelta |-> quote.UpMidDelta, DownMidDelta |-> quote.DownMidDelta,
     BidLiquidityImbalance |-> quote.BidLiquidityImbalance]

\* files of one quote a timestamp, timestamps 1, 2, ...
OptimizedFiles ==
    UNION {{[k \in 1..n |-> OptimizedRow(k, ms[k], qs[k])] :
               ms \in [1..n -> OptimizedMarkets],
               qs \in [1..n -> OptimizedQuotes]} : n \in 1..MaxQuotes}

\* _get_or_init_portfolio (lines 28-34); trailing_stop_price is kept in
\* thousandths, the other prices in hundredths
NewOptimizedPortfolio ==
    [qty_yes |-> 0, qty_no |-> 0, cost_yes |-> 0, cost_no |-> 0,
     high_water_mark |-> 0, trailing_stop_price |-> 0]

OptimizedPortfolioOf(state, market_id) ==
    IF market_id \in DOMAIN state THEN state[market_id]
    ELSE NewOptimizedPortfolio

\* portfolio_state with the portfolio of a market replaced
SetOptimizedPortfolio(state, market_id, portfolio) ==
    [x \in DOMAIN state \cup {market_id} |->
        IF x = market_id THEN portfolio ELSE state[x]]

\* price * (1 - TRAILING_STOP_PERCENT), in thousandths
TrailingStopOf(price) == price * (10 - TrailingStopTenths)

\* (variant: the stop follows the price down as well as up)
OptimizedTrail_FollowsPrice(portfolio, current_price) ==
    [portfolio EXCEPT !.high_water_mark = current_price,
                      !.trailing_stop_price = TrailingStopOf(current_price)]

\* lines 66-68 and 75-77: a new high raises the mark and the stop
OptimizedTrail(portfolio, current_price) ==
    IF current_price > portfolio.high_water_mark
    THEN [portfolio EXCEPT
              !.high_water_mark = current_price,
              !.trailing_stop_price = TrailingStopOf(current_price)]
    ELSE portfolio

\* the float of trailing_stop_price: the mark times 1 - 0.1 (lines 68, 77
\* and 119 set the two together)
TrailingStop64(portfolio) ==
    Mul64(Decimal64(portfolio.high_water_mark),
          Sub64(Float(1), Decimal64(10 * TrailingStopTenths)))

\* lines 70 and 79: current_price < portfolio['trailing_stop_price']
BelowTrailingStop(portfolio, current_price) ==
    CompareAmounts(10 * current_price, portfolio.trailing_stop_price,
                   Decimal64(current_price), TrailingStop64(portfolio)) < 0

\* _get_signal (lines 36-55)
OptimizedGetSignal(market_data_point) ==
    LET up_score ==
            (IF market_data_point.UpMidDelta > 0
             THEN PriceDeltaWeight ELSE 0)
            + (IF market_data_point.BidLiquidityImbalance > 0
               THEN LiquidityImbalanceWeight ELSE 0)
        down_score ==
            (IF market_data_point.DownMidDelta > 0
             THEN PriceDeltaWeight ELSE 0)
            + (IF market_data_point.BidLiquidityImbalance < 0
               THEN LiquidityImbalanceWeight ELSE 0)
    IN IF up_score >= MinScoreThreshold THEN "Up"
       ELSE IF down_score >= MinScoreThreshold THEN "Down"
       ELSE "None"

\* lines 109-110: math.floor(current_capital * MAX_ALLOCATION_PER_TRADE /
\* ask_price), the float current_capital64.  The exact quotient is a whole
\* number or at least 0.00001 away from one
OptimizedOpeningQuantity(current_capital, current_capital64, ask_price) ==
    IF (current_capital * MaxAllocationPerTradePermille) % (1000 * ask_price)
           # 0
    THEN (current_capital * MaxAllocationPerTradePermille)
             \div (1000 * ask_price)
    ELSE Floor64(Div64(Mul64(current_capital64,
                             DivInt64(Float(MaxAllocationPerTradePermille),
                                      1000)),
                       Decimal64(ask_price)))

\* lines 83-121: the opening trade on a flat market
OptimizedOpen(portfolio, market_data_point, current_capital, current_capital64) ==
    LET minute == market_data_point.MinuteFromStart
        side == OptimizedGetSignal(market_data_point)
        ask_price == SidePrice(market_data_point, side)
        quantity == OptimizedOpeningQuantity(current_capital,
                                             current_capital64, ask_price)
        none == [decision |-> NoneDecision, portfolio |-> portfolio]
    IN IF market_data_point.UpMidDelta = NaN
          \/ market_data_point.Volatility = NaN THEN none
       ELSE IF ~(MinMinute <= minute /\ minute <= MaxMinute) THEN none
       ELSE IF ~market_data_point.SharpEvent THEN none
       ELSE IF market_data_point.Volatility > VolatilityThreshold THEN none
       ELSE IF side = "None" THEN none
       ELSE IF ask_price <= 0 \/ ask_price >= One THEN none
       ELSE IF quantity = 0 THEN none
       ELSE IF ~WithinCapital(quantity, ask_price, current_capital,
                              current_capital64)
       THEN none
       ELSE [decision |-> TupleDecision(<<side, quantity, ask_price, 0>>),
             portfolio |->
                 [portfolio EXCEPT
                      !.high_water_mark = ask_price,
                      !.trailing_stop_price = TrailingStopOf(ask_price)]]

\* OptimizedHybridStrategy.decide (lines 57-123) on the portfolio of the
\* quote's market, called with current_capital, the float current_capital64:
\* the decision returned and the portfolio decide leaves
OptimizedDecide(portfolio, market_data_point, current_capital, current_capital64) ==
    IF portfolio.qty_yes > 0 /\ portfolio.qty_no = 0
    THEN LET trailed == OptimizedTrail(portfolio, market_data_point.UpMid)
         IN IF BelowTrailingStop(trailed, market_data_point.UpMid)
            THEN [decision |-> TupleDecision(<<"Down", portfolio.qty_yes,
                                   market_data_point.DownAsk, 0>>),
                  portfolio |-> trailed]
            ELSE [decision |-> NoneDecision, portfolio |-> trailed]
    ELSE IF portfolio.qty_no > 0 /\ portfolio.qty_yes = 0
    THEN LET trailed == OptimizedTrail(portfolio, market_data_point.DownMid)
         IN IF BelowTrailingStop(trailed, market_data_point.DownMid)
            THEN [decision |-> TupleDecision(<<"Up", portfolio.qty_no,
                                   market_data_point.UpAsk, 0>>),
                  portfolio |-> trailed]
            ELSE [decision |-> NoneDecision, portfolio |-> trailed]
    ELSE IF portfolio.qty_yes = 0 /\ portfolio.qty_no = 0
    THEN OptimizedOpen(portfolio, market_data_point, current_capital,
                       current_capital64)
    ELSE [decision |-> NoneDecision, portfolio |-> portfolio]

\* update_portfolio (lines 125-133)
OptimizedUpdatePortfolio(portfolio, side, quantity, price) ==
    IF side = "Up"
    THEN [portfolio EXCEPT !.qty_yes = @ + quantity,
                           !.cost_yes = @ + quantity * price]
    ELSE IF side = "Down"
    THEN [portfolio EXCEPT !.qty_no = @ + quantity,
                           !.cost_no = @ + quantity * price]
    ELSE portfolio

InitOptimized ==
    /\ initial_capital \in OptimizedCapitals
    /\ slippage_seconds = 0
    /\ capital = initial_capital
    /\ transactions = <<>>
    /\ open_positions = <<>>
    /\ market_data = <<>>
    /\ market_history = EmptyDict
    /\ pending_market_summaries = EmptyDict
    /\ transactions_by_market = EmptyDict
    /\ portfolio_history = <<>>
    /\ risk_events = <<>>
    /\ pc = "constructed"
    /\ grp = 0
    /\ rowi = 0
    /\ current_timestamp = 0
    /\ trade_decision = NoneDecision
    /\ decide_calls = <<>>
    /\ portfolio_calls = <<>>
    /\ market_states = EmptyDict
    /\ optimized_portfolio = EmptyDict
    /\ delta_case = NoDeltaCase
    /\ delta_passes = <<>>
    /\ hybrid_portfolio = EmptyDict
    /\ hybrid_call = NoHybridCall
    /\ input_file = <<>>
    /\ report = NoReport

\* load_data on a file with the columns the strategy reads
LoadOptimizedData ==
    /\ pc = "constructed"
    /\ \E file \in OptimizedFiles :
          /\ market_data' \in SortOutcomes(file)
          /\ market_history' = GroupByMarket(market_data')
    /\ pc' = "loaded"
    /\ UNCHANGED <<strategy_vars, scenario_vars,
                   initial_capital, slippage_seconds, capital, transactions,
                   open_positions, pending_market_summaries,
                   transactions_by_market, portfolio_history, risk_events,
                   grp, rowi, current_timestamp, trade_decision,
                   decide_calls, portfolio_calls>>

\* run_strategy lines 295-328 for one quote, with the strategy's decide at
\* line 297 and its update_portfolio at line 309
OptimizedQuoteStep ==
    /\ pc = "quotes"
    /\ \E r \in {OptimizedDecide(
                    OptimizedPortfolioOf(optimized_portfolio,
                                         MarketOf(CurrentRow)),
                    CurrentRow, capital, Capital64)} :
       LET m == MarketOf(CurrentRow)
           d == r.decision
       IN /\ DecideCalled(d)
          /\ IF ~Truthy(d) \/ QuoteExpired(current_timestamp, CurrentRow)
             THEN /\ optimized_portfolio' =
                        SetOptimizedPortfolio(optimized_portfolio, m,
                                              r.portfolio)
                  /\ UNCHANGED <<capital, portfolio_calls, open_positions,
                                 transactions, transactions_by_market,
                                 risk_events>>
             ELSE
               LET side == d.items[1]
                   quantity == d.items[2]
                   entry_price == ExecutedPrice(d)
                   cost == Cost(quantity, entry_price)
                   trade_log_entry ==
                       [Timestamp |-> current_timestamp, Type |-> "Buy",
                        MarketID |-> m, Side |-> side, Quantity |-> quantity,
                        EntryPrice |-> entry_price, Value |-> cost,
                        PnL |-> -cost]
               IN IF Affordable(capital, cost, Capital64,
                                Cost64(quantity, entry_price))
                  THEN /\ capital' = capital - cost
                       /\ optimized_portfolio' =
                             SetOptimizedPortfolio(optimized_portfolio, m,
                                 OptimizedUpdatePortfolio(r.portfolio, side,
                                     quantity, entry_price))
                       /\ portfolio_calls' = Append(portfolio_calls,
                             [market_id |-> m, side |-> side,
                              quantity |-> quantity, price |-> entry_price])
                       /\ open_positions' = Append(open_positions,
                             [market_id |-> m, side |-> side,
                              quantity |-> quantity,
                              entry_price |-> entry_price,
                              expiration |-> CurrentRow.Expiration])
                       /\ transactions' = Append(transactions, trade_log_entry)
                       /\ transactions_by_market' =
                             AppendAt(transactions_by_market, m,
                                      trade_log_entry)
                       /\ UNCHANGED risk_events
                  ELSE /\ optimized_portfolio' =
                             SetOptimizedPortfolio(optimized_portfolio, m,
                                                   r.portfolio)
                       /\ risk_events' = Append(risk_events,
                             [timestamp |-> current_timestamp,
                              event |-> "Insufficient Capital",
                              details |-> [needed |-> cost, had |-> capital]])
                       /\ UNCHANGED <<capital, portfolio_calls,
                                      open_positions, transactions,
                                      transactions_by_market>>
    /\ Advance
    /\ UNCHANGED <<market_states, delta_case, delta_passes, hybrid_vars,
                   scenario_vars,
                   initial_capital, slippage_seconds, market_data,
                   market_history, pending_market_summaries,
                   portfolio_history, current_timestamp>>

NextOptimized ==
    \/ LoadOptimizedData
    \/ BeginRun
    \/ ResolveExpired
    \/ OptimizedQuoteStep
    \/ FinalResolve

SpecOptimized == InitOptimized /\ [][NextOptimized]_vars

\* the Buys of a market, in the order of the log
BuysOfMarket(m) ==
    SelectSeq(transactions, LAMBDA tx : tx.Type = "Buy" /\ tx.MarketID = m)

\* one side only is held in the market
OneSided(portfolio) ==
    \/ portfolio.qty_yes > 0 /\ portfolio.qty_no = 0
    \/ portfolio.qty_no > 0 /\ portfolio.qty_yes = 0

\* every market has at most two Buys, the second on the other side for the
\* quantity of the first, and holds nothing, one side, or both alike
AtMostEntryAndHedge ==
    \A m \in OptimizedMarkets :
        LET buys == BuysOfMarket(m)
            portfolio == OptimizedPortfolioOf(optimized_portfolio, m)
        IN /\ Len(buys) <= 2
           /\ Len(buys) = 2 =>
                 /\ buys[2].Side # buys[1].Side
                 /\ buys[2].Quantity = buys[1].Quantity
           /\ portfolio.qty_yes = QuantitySum(BuysOf(transactions, m, "Up"))
           /\ portfolio.qty_no = QuantitySum(BuysOf(transactions, m, "Down"))
           /\ \/ portfolio.qty_yes = 0 /\ portfolio.qty_no = 0
              \/ OneSided(portfolio)
              \/ portfolio.qty_yes = portfolio.qty_no

\* a step leaves the stop of a market held one-sided before and after it no
\* lower than it was
TrailingStopKept ==
    \A m \in OptimizedMarkets :
        LET before == OptimizedPortfolioOf(optimized_portfolio, m)
            after == OptimizedPortfolioOf(optimized_portfolio', m)
        IN (OneSided(before) /\ OneSided(after)) =>
               after.trailing_stop_price >= before.trailing_stop_price

\* C38: under OptimizedHybridStrategy driven by the Backtester every market
\* has at most two accepted trades, an entry and a hedge on the opposite
\* side for the same quantity, so that its holdings are flat, one-sided or
\* exactly balanced; and the trailing stop of a market held one-sided never
\* decreases
ThmC38_EntryAndOneHedge ==
    [](AtMostEntryAndHedge) /\ [][TrailingStopKept]_vars

\* C38 witness: three quotes of one market, an entry, a fall below the stop
\* answered by the hedge, and a further signal on which nothing was traded
WitC38_BalancedAfterHedge ==
    /\ pc = "final"
    /\ Len(decide_calls) = 3
    /\ \A k \in 1..3 : MarketOf(decide_calls[k].row) = <<1, 4>>
    /\ Len(BuysOfMarket(<<1, 4>>)) = 2
    /\ decide_calls[3].logged = 2
    /\ decide_calls[3].row.SharpEvent
    /\ decide_calls[3].row.Volatility <= VolatilityThreshold
    /\ ~Truthy(trade_decision)
    /\ OptimizedPortfolioOf(optimized_portfolio, <<1, 4>>).qty_yes > 0

====
